---- MODULE Spec2Model ----
(***************************************************************************)
(* A model of gopick's search-and-install engine: the TTL result cache     *)
(* (internal/cache), the history log (internal/history), the package       *)
(* manager (internal/packages) and the scraper's retrying search           *)
(* (internal/scraper).  Each component has its own specification over its  *)
(* own variables; the other components' variables stay at their initial    *)
(* values.                                                                 *)
(***************************************************************************)
EXTENDS Integers, Sequences, FiniteSets, TLC

VARIABLES
    cfs,        \* the cache directory: [exists, dir, data]
    cnow,       \* wall clock of the cache component, in days
    ttlDays,    \* Cache.ttlDays
    cret,       \* what the last cache call returned
    lastSet,    \* per query: the last Set with no later call on the query
    writer,     \* per concurrent Set call: [pc, fd, entry, err]
    reader,     \* the concurrent Get call: [pc, query, outcome, entry]
    hfile,      \* the history file: a sequence of lines, oldest first
    hnow,       \* wall clock of the history component, in half hours
    maxEntries, \* History.maxEntries
    hret,       \* what the last history call returned
    streak,     \* the run of identical Add calls that the last call belongs to
    adds,       \* the entries Add has stored since the log was last empty
    cmd,        \* a GetInstallCommand call: [pc, packages, command]
    search,     \* a Scraper.Search call: [pc, query, attempt, doc, lastErr, results, err]
    maxRetries, \* Scraper.maxRetries
    net,        \* the network as the call saw it: [responses, slept]
    goMod,      \* the import paths the Go module cache holds
    installedCache, \* Manager.installedCache
    inst,       \* an InstallPackages call: [pc, packages, i, reports, invoked, failed, scanning, ret],
                \* and asked, the call of the package manager that made the last step
    run,        \* an InstallPackage call, its subprocess and its two scanning goroutines
    probe,      \* IsInstalled running next to InstallPackage and RefreshCache
    coord,      \* a performSearch call: [pc, query, packages, err, msg, ...]
    hcall,      \* concurrent History.Add calls: caller -> [pc, args, entry, entries]
    hmu,        \* History.mu: the caller holding it, or "free"
    m,          \* the session: tui.Model
    timers,     \* the debounce timers made so far, each armed, stopped, fired or drained
    cmds,       \* the debounce commands returned so far: [pc, query, timer]
    inbox,      \* messages of finished commands not yet given to Update
    exited      \* tea.Quit has ended the program

cacheVars == <<cfs, cnow, ttlDays, cret, lastSet>>

concVars == <<writer, reader>>

histVars == <<hfile, hnow, maxEntries, hret, streak, adds>>

fetchVars == <<search, maxRetries, net>>

pmVars == <<goMod, installedCache, inst, run, probe>>

hconcVars == <<hcall, hmu>>

tuiVars == <<m, timers, cmds, inbox, exited>>

vars == <<cfs, cnow, ttlDays, cret, lastSet, writer, reader, hfile, hnow, maxEntries, hret, streak, adds, cmd, search, maxRetries, net,
          goMod, installedCache, inst, run, probe, coord, hcall, hmu, m, timers, cmds, inbox, exited>>

(***************************************************************************)
(* Bounds                                                                  *)
(***************************************************************************)
MaxTime == 2
MaxTTL == 1
MaxHistory == 2
MaxHistTime == 2
MaxAdds == 3
MaxSelected == 3
MaxWindowAdds == 12
MaxInput == 1
MaxCmds == 2

MaxLines == 2
RetryLimit == 3

\* Clock ticks per day: the cache's clock advances a day at a time.
DayTicks == 1

(***************************************************************************)
(* Helpers                                                                 *)
(***************************************************************************)
Range(f) == {f[x] : x \in DOMAIN f}

Min(S) == CHOOSE x \in S : \A y \in S : x <= y

SeqsUpTo(S, n) == UNION {[1..k -> S] : k \in 0..n}

(***************************************************************************)
(* cache.Package and cache.CacheEntry                                      *)
(***************************************************************************)
Pkg(n, p, d, v, i) == [name |-> n, importPath |-> p, description |-> d, version |-> v, isInstalled |-> i]

Cobra == Pkg("cobra", "github.com/spf13/cobra", "A Commander for modern Go CLI interactions", "", FALSE)

Viper == Pkg("viper", "github.com/spf13/viper", "Go configuration with fangs", "1.8.1", TRUE)

Gin == Pkg("gin", "github.com/gin-gonic/gin", "", "v1.8.1", FALSE)

PkgPool == {Cobra, Viper, Gin}

\* The package lists the cache is given.
ResultLists == {<<>>, <<Gin>>, <<Cobra, Viper>>}

Queries == {"cobra", "gin web"}

NoEntry == [query |-> "", results |-> <<>>, timestamp |-> -1]

CacheEntry(q, r, t) == [query |-> q, results |-> r, timestamp |-> t]

(***************************************************************************)
(* encoding/json as the cache uses it: a document is a sequence of tokens. *)
(* Fields tagged omitempty are left out when empty and come back as the    *)
(* zero value; a document followed by anything, or cut short, is rejected. *)
(***************************************************************************)
Tok(k, v, n) == [k |-> k, v |-> v, n |-> n]

ObjOpen == Tok("{", "", 0)

ObjClose == Tok("}", "", 0)

ArrOpen == Tok("results", "[", 0)

ArrClose == Tok("]", "", 0)

\* The version field never written.
MarshalPackageNoVersion(p) ==
    <<ObjOpen, Tok("name", p.name, 0), Tok("import_path", p.importPath, 0), Tok("description", p.description, 0)>>
    \o (IF p.isInstalled THEN <<Tok("is_installed", "true", 0)>> ELSE <<>>)
    \o <<ObjClose>>

MarshalPackage(p) ==
    <<ObjOpen, Tok("name", p.name, 0), Tok("import_path", p.importPath, 0), Tok("description", p.description, 0)>>
    \o (IF p.version # "" THEN <<Tok("version", p.version, 0)>> ELSE <<>>)
    \o (IF p.isInstalled THEN <<Tok("is_installed", "true", 0)>> ELSE <<>>)
    \o <<ObjClose>>

RECURSIVE MarshalResults(_)
MarshalResults(r) ==
    IF r = <<>> THEN <<>> ELSE MarshalPackage(Head(r)) \o MarshalResults(Tail(r))

MarshalIndent(e) ==
    <<ObjOpen, Tok("query", e.query, 0), ArrOpen>> \o MarshalResults(e.results)
    \o <<ArrClose, Tok("timestamp", "", e.timestamp), ObjClose>>

\* The package object starting at d[i]: [ok, pkg, next].
UnmarshalPackage(d, i) ==
    LET has(j, k) == j <= Len(d) /\ d[j].k = k
        j1 == i + 4
        hasV == has(j1, "version")
        j2 == IF hasV THEN j1 + 1 ELSE j1
        hasI == has(j2, "is_installed")
        j3 == IF hasI THEN j2 + 1 ELSE j2
    IN  IF has(i, "{") /\ has(i + 1, "name") /\ has(i + 2, "import_path")
           /\ has(i + 3, "description") /\ has(j3, "}")
        THEN [ok |-> TRUE,
              pkg |-> Pkg(d[i + 1].v, d[i + 2].v, d[i + 3].v,
                          IF hasV THEN d[j1].v ELSE "",
                          IF hasI THEN d[j2].v = "true" ELSE FALSE),
              next |-> j3 + 1]
        ELSE [ok |-> FALSE, pkg |-> Cobra, next |-> i]

\* The packages from d[i] up to the closing bracket: [ok, results, next].
RECURSIVE UnmarshalResults(_, _, _)
UnmarshalResults(d, i, acc) ==
    IF i > Len(d) THEN [ok |-> FALSE, results |-> acc, next |-> i]
    ELSE IF d[i] = ArrClose THEN [ok |-> TRUE, results |-> acc, next |-> i + 1]
    ELSE LET p == UnmarshalPackage(d, i)
         IN  IF p.ok THEN UnmarshalResults(d, p.next, Append(acc, p.pkg))
             ELSE [ok |-> FALSE, results |-> acc, next |-> i]

Unmarshal(d) ==
    IF Len(d) >= 3 /\ d[1] = ObjOpen /\ d[2].k = "query" /\ d[3] = ArrOpen
    THEN LET r == UnmarshalResults(d, 4, <<>>)
         IN  IF r.ok /\ Len(d) = r.next + 1 /\ d[r.next].k = "timestamp" /\ d[r.next + 1] = ObjClose
             THEN [ok |-> TRUE, entry |-> CacheEntry(d[2].v, r.results, d[r.next].n)]
             ELSE [ok |-> FALSE, entry |-> NoEntry]
    ELSE [ok |-> FALSE, entry |-> NoEntry]

(***************************************************************************)
(* The cache directory.  A path names an inode or nothing; an inode holds  *)
(* a file's bytes.  A file descriptor keeps naming its inode whatever      *)
(* happens to the directory entry it was opened through.                   *)
(***************************************************************************)
Sha256Hex == [q \in Queries |-> IF q = "cobra" THEN "5f3a" ELSE "c71e"]

getFilename(q) == [hash |-> Sha256Hex[q], ext |-> ".json"]

TempPath(path) == [hash |-> path.hash, ext |-> ".tmp"]

Paths == {getFilename(q) : q \in Queries} \cup {TempPath(getFilename(q)) : q \in Queries}

Writers == {"w1", "w2"}

MaxInodes == Cardinality(Paths) + Cardinality(Writers)

Inodes == 1..MaxInodes

NoInode == 0

EmptyFs == [exists |-> TRUE, dir |-> [p \in Paths |-> NoInode], data |-> [i \in Inodes |-> <<>>]]

\* Inodes no directory entry and no open descriptor names lose their bytes.
FsCollect(fs, held) ==
    [fs EXCEPT !.data = [i \in Inodes |-> IF i \in Range(fs.dir) \cup held THEN fs.data[i] ELSE <<>>]]

\* open(path, O_WRONLY|O_CREATE|O_TRUNC): [err, fs, fd].
FsOpenTrunc(fs, path, held) ==
    IF ~fs.exists THEN [err |-> TRUE, fs |-> fs, fd |-> NoInode]
    ELSE IF fs.dir[path] # NoInode
    THEN [err |-> FALSE, fs |-> [fs EXCEPT !.data[fs.dir[path]] = <<>>], fd |-> fs.dir[path]]
    ELSE LET i == Min(Inodes \ (Range(fs.dir) \cup held))
         IN  [err |-> FALSE, fs |-> [fs EXCEPT !.dir[path] = i, !.data[i] = <<>>], fd |-> i]

\* write(fd, data) on a descriptor at offset 0: bytes beyond the data stay.
FsWrite(fs, fd, data) ==
    [fs EXCEPT !.data[fd] = data \o SubSeq(@, Len(data) + 1, Len(@))]

\* os.WriteFile: open, write, close.
FsWriteFile(fs, path, data) ==
    LET o == FsOpenTrunc(fs, path, {})
    IN  IF o.err THEN [err |-> TRUE, fs |-> fs] ELSE [err |-> FALSE, fs |-> FsWrite(o.fs, o.fd, data)]

\* os.Rename: [err, fs].
FsRename(fs, from, to, held) ==
    IF ~fs.exists \/ fs.dir[from] = NoInode THEN [err |-> TRUE, fs |-> fs]
    ELSE [err |-> FALSE,
          fs |-> FsCollect([fs EXCEPT !.dir[to] = fs.dir[from], !.dir[from] = NoInode], held)]

\* os.Remove: [err, fs].
FsRemove(fs, path, held) ==
    IF ~fs.exists \/ fs.dir[path] = NoInode THEN [err |-> TRUE, fs |-> fs]
    ELSE [err |-> FALSE, fs |-> FsCollect([fs EXCEPT !.dir[path] = NoInode], held)]

\* os.ReadFile: [err, data].
FsReadFile(fs, path) ==
    IF ~fs.exists \/ fs.dir[path] = NoInode THEN [err |-> TRUE, data |-> <<>>]
    ELSE [err |-> FALSE, data |-> fs.data[fs.dir[path]]]

\* os.ReadDir: the names present, as a set.
FsReadDir(fs) == {p \in Paths : fs.dir[p] # NoInode}

(***************************************************************************)
(* Cache                                                                   *)
(***************************************************************************)
\* The comparison the wrong way round.
isExpiredInverted(timestamp) ==
    LET ttl == ttlDays * DayTicks
    IN  cnow - timestamp < ttl

isExpired(timestamp) ==
    LET ttl == ttlDays * DayTicks
    IN  cnow - timestamp > ttl

\* An expired record reported as missing but left on disk.
GetNoRemove(fs, query) ==
    LET path == getFilename(query)
        rd == FsReadFile(fs, path)
        um == Unmarshal(rd.data)
    IN  IF rd.err \/ ~um.ok \/ isExpired(um.entry.timestamp)
        THEN [fs |-> fs, found |-> FALSE, entry |-> NoEntry]
        ELSE [fs |-> fs, found |-> TRUE, entry |-> um.entry]

\* Cache.Get on directory fs: [fs, found, entry].
Get(fs, query) ==
    LET path == getFilename(query)
        rd == FsReadFile(fs, path)
        um == Unmarshal(rd.data)
    IN  IF rd.err THEN [fs |-> fs, found |-> FALSE, entry |-> NoEntry]
        ELSE IF ~um.ok THEN [fs |-> fs, found |-> FALSE, entry |-> NoEntry]
        ELSE IF isExpired(um.entry.timestamp)
        THEN [fs |-> FsRemove(fs, path, {}).fs, found |-> FALSE, entry |-> NoEntry]
        ELSE [fs |-> fs, found |-> TRUE, entry |-> um.entry]

\* Cache.Set on directory fs: [fs, err].
Set(fs, query, packages) ==
    LET entry == CacheEntry(query, packages, cnow)
        data == MarshalIndent(entry)
        path == getFilename(query)
        tempPath == TempPath(path)
        w == FsWriteFile(fs, tempPath, data)
        r == FsRename(w.fs, tempPath, path, {})
    IN  IF w.err THEN [fs |-> fs, err |-> TRUE]
        ELSE IF r.err THEN [fs |-> FsRemove(w.fs, tempPath, {}).fs, err |-> TRUE]
        ELSE [fs |-> r.fs, err |-> FALSE]

\* Cache.Clear on directory fs, the entries taken in the order given: [fs, err].
RECURSIVE ClearLoop(_, _)
ClearLoop(fs, entries) ==
    IF entries = <<>> THEN [fs |-> fs, err |-> FALSE]
    ELSE LET path == Head(entries)
         IN  IF path.ext = ".json"
             THEN LET rm == FsRemove(fs, path, {})
                  IN  IF rm.err THEN [fs |-> fs, err |-> TRUE] ELSE ClearLoop(rm.fs, Tail(entries))
             ELSE ClearLoop(fs, Tail(entries))

\* Cache.CleanExpired's loop over the directory entries, in the order given.
RECURSIVE CleanExpiredLoop(_, _)
CleanExpiredLoop(fs, entries) ==
    IF entries = <<>> THEN fs
    ELSE LET path == Head(entries)
             rd == FsReadFile(fs, path)
             um == Unmarshal(rd.data)
         IN  IF path.ext = ".json" /\ ~rd.err /\ um.ok /\ isExpired(um.entry.timestamp)
             THEN CleanExpiredLoop(FsRemove(fs, path, {}).fs, Tail(entries))
             ELSE CleanExpiredLoop(fs, Tail(entries))

\* The orders in which a directory listing can come back.
Listings(fs) ==
    LET names == FsReadDir(fs)
        n == Cardinality(names)
    IN  {s \in [1..n -> names] : \A i, j \in 1..n : i # j => s[i] # s[j]}

\* The queries with a record at their target path.
Stored(fs) == {q \in Queries : fs.dir[getFilename(q)] # NoInode}

\* A call's outcome; had is the set of queries stored when the call began.
Ret(op, q, found, entry, err) == [op |-> op, query |-> q, found |-> found, entry |-> entry, err |-> err, had |-> Stored(cfs)]

NoSets == [q \in Queries |-> NoEntry]

CacheGet(q) ==
    LET g == Get(cfs, q)
    IN  /\ cfs' = g.fs
        /\ cret' = Ret("Get", q, g.found, g.entry, FALSE)
        /\ lastSet' = [lastSet EXCEPT ![q] = NoEntry]
        /\ UNCHANGED <<cnow, ttlDays, concVars, histVars, cmd, fetchVars, pmVars, coord, hconcVars, tuiVars>>

CacheSet(q, r) ==
    LET s == Set(cfs, q, r)
    IN  /\ cfs' = s.fs
        /\ cret' = Ret("Set", q, FALSE, NoEntry, s.err)
        /\ lastSet' = [lastSet EXCEPT ![q] = IF s.err THEN NoEntry ELSE CacheEntry(q, r, cnow)]
        /\ UNCHANGED <<cnow, ttlDays, concVars, histVars, cmd, fetchVars, pmVars, coord, hconcVars, tuiVars>>

CacheClear ==
    /\ \E entries \in Listings(cfs) :
          LET c == IF cfs.exists THEN ClearLoop(cfs, entries) ELSE [fs |-> cfs, err |-> TRUE]
          IN  /\ cfs' = c.fs
              /\ cret' = Ret("Clear", "", FALSE, NoEntry, c.err)
    /\ lastSet' = NoSets
    /\ UNCHANGED <<cnow, ttlDays, concVars, histVars, cmd, fetchVars, pmVars, coord, hconcVars, tuiVars>>

CacheCleanExpired ==
    /\ \E entries \in Listings(cfs) :
          /\ cfs' = IF cfs.exists THEN CleanExpiredLoop(cfs, entries) ELSE cfs
          /\ cret' = Ret("CleanExpired", "", FALSE, NoEntry, ~cfs.exists)
    /\ lastSet' = NoSets
    /\ UNCHANGED <<cnow, ttlDays, concVars, histVars, cmd, fetchVars, pmVars, coord, hconcVars, tuiVars>>

\* Time passes.
CacheTick ==
    /\ cnow < MaxTime
    /\ cnow' = cnow + 1
    /\ UNCHANGED <<cfs, ttlDays, cret, lastSet, concVars, histVars, cmd, fetchVars, pmVars, coord, hconcVars, tuiVars>>

\* The cache directory is removed from outside the program.
CacheDirRemoved ==
    /\ cfs.exists
    /\ cfs' = [EmptyFs EXCEPT !.exists = FALSE]
    /\ cret' = Ret("none", "", FALSE, NoEntry, FALSE)
    /\ lastSet' = NoSets
    /\ UNCHANGED <<cnow, ttlDays, concVars, histVars, cmd, fetchVars, pmVars, coord, hconcVars, tuiVars>>

\* A caller of Set or Get that has not called yet.
IdleWriter == [pc |-> "idle", fd |-> NoInode, entry |-> NoEntry, err |-> FALSE]

IdleReader == [pc |-> "idle", query |-> "", outcome |-> "none", entry |-> NoEntry]

\* cache.New(cacheDir, days) on an empty directory, no call in progress.
CacheInit(days) ==
    /\ cfs = EmptyFs
    /\ cnow = 0
    /\ ttlDays = days
    /\ writer = [w \in Writers |-> IdleWriter]
    /\ reader = IdleReader
    /\ cret = [op |-> "none", query |-> "", found |-> FALSE, entry |-> NoEntry, err |-> FALSE, had |-> {}]
    /\ lastSet = NoSets

CacheNext ==
    \/ \E q \in Queries : CacheGet(q)
    \/ \E q \in Queries, r \in ResultLists : CacheSet(q, r)
    \/ CacheClear
    \/ CacheCleanExpired
    \/ CacheTick
    \/ CacheDirRemoved

(***************************************************************************)
(* History (internal/history).  Every method holds the mutex from entry to *)
(* return, so a call is one step.                                          *)
(***************************************************************************)
ActionViewed == "viewed"

ActionInstalled == "installed"

\* time.Hour in clock ticks, and the number of trailing entries isDuplicate scans.
HourTicks == 2

DupScan == 10

Entry(t, n, p, a) == [Timestamp |-> t, Package |-> n, ImportPath |-> p, Action |-> a]

\* The (name, import path, action) triples Add is called with.
AddArgs ==
    { <<Cobra.name, Cobra.importPath, ActionViewed>>,
      <<Cobra.name, Cobra.importPath, ActionInstalled>>,
      <<Viper.name, Viper.importPath, ActionInstalled>> }

\* json.Marshal of an entry: one line of the file.
MarshalEntry(e) == [timestamp |-> e.Timestamp, package |-> e.Package, import_path |-> e.ImportPath, action |-> e.Action]

UnmarshalEntry(l) == Entry(l.timestamp, l.package, l.import_path, l.action)

readEntries(file) == [i \in 1..Len(file) |-> UnmarshalEntry(file[i])]

writeEntries(entries) == [i \in 1..Len(entries) |-> MarshalEntry(entries[i])]

isDuplicate(file, packageName, importPath, action) ==
    LET entries == readEntries(file)
        start == IF Len(entries) - DupScan < 0 THEN 0 ELSE Len(entries) - DupScan
    IN  \E i \in (start + 1)..Len(entries) :
           /\ entries[i].Package = packageName
           /\ entries[i].ImportPath = importPath
           /\ entries[i].Action = action
           /\ hnow - entries[i].Timestamp < HourTicks

\* Overflow drops the newest entries instead of the oldest.
TruncateKeepOldest(entries) ==
    IF Len(entries) > maxEntries THEN SubSeq(entries, 1, maxEntries) ELSE entries

\* History.Add, lines 69-72: keep the last maxEntries entries.
Truncate(entries) ==
    IF Len(entries) > maxEntries THEN SubSeq(entries, Len(entries) - maxEntries + 1, Len(entries)) ELSE entries

\* Every call taken for new: the duplicate check is skipped.
AddNoDuplicateCheck(file, packageName, importPath, action) ==
    [file |-> writeEntries(Truncate(Append(readEntries(file), Entry(hnow, packageName, importPath, action)))),
     stored |-> TRUE]

\* History.Add on the file: [file, stored].
Add(file, packageName, importPath, action) ==
    IF isDuplicate(file, packageName, importPath, action) THEN [file |-> file, stored |-> FALSE]
    ELSE LET entry == Entry(hnow, packageName, importPath, action)
             entries == Truncate(Append(readEntries(file), entry))
         IN  [file |-> writeEntries(entries), stored |-> TRUE]

NoArgs == <<"", "", "">>

NoStreak == [args |-> NoArgs, n |-> 0, firstAt |-> 0, lastAt |-> 0, firstStored |-> FALSE, after |-> <<>>]

HRet(op, args, stored, afterClear) == [op |-> op, args |-> args, err |-> FALSE, stored |-> stored, afterClear |-> afterClear, at |-> hnow]

HistoryAdd(args) ==
    LET a == Add(hfile, args[1], args[2], args[3])
    IN  /\ a.stored => Len(adds) < MaxAdds
        /\ hfile' = a.file
        /\ hret' = HRet("Add", args, a.stored, hret.op = "Clear")
        /\ streak' = IF streak.args = args /\ streak.n > 0
                     THEN [streak EXCEPT !.n = IF @ < 3 THEN @ + 1 ELSE 3, !.lastAt = hnow]
                     ELSE [args |-> args, n |-> 1, firstAt |-> hnow, lastAt |-> hnow,
                           firstStored |-> a.stored, after |-> a.file]
        /\ adds' = IF a.stored THEN Append(adds, Entry(hnow, args[1], args[2], args[3])) ELSE adds
        /\ UNCHANGED <<hnow, maxEntries, cacheVars, concVars, cmd, fetchVars, pmVars, coord, hconcVars, tuiVars>>

\* History.Clear: the file is truncated to nothing.
HistoryClear ==
    /\ hfile' = <<>>
    /\ hret' = HRet("Clear", NoArgs, FALSE, FALSE)
    /\ streak' = NoStreak
    /\ adds' = <<>>
    /\ UNCHANGED <<hnow, maxEntries, cacheVars, concVars, cmd, fetchVars, pmVars, coord, hconcVars, tuiVars>>

HistoryTick ==
    /\ hnow < MaxHistTime
    /\ hnow' = hnow + 1
    /\ UNCHANGED <<hfile, maxEntries, hret, streak, adds, cacheVars, concVars, cmd, fetchVars, pmVars, coord, hconcVars, tuiVars>>

\* history.New(historyFile, max) on an empty file.
HistoryInit(max) ==
    /\ hfile = <<>>
    /\ hnow = 0
    /\ maxEntries = max
    /\ hret = [op |-> "none", args |-> NoArgs, err |-> FALSE, stored |-> FALSE, afterClear |-> FALSE, at |-> 0]
    /\ streak = NoStreak
    /\ adds = <<>>

\* contains, lines 227-230, on strings given as sequences of bytes.
RECURSIVE contains(_, _)
contains(s, substr) ==
    /\ Len(substr) > 0
    /\ Len(s) >= Len(substr)
    /\ \/ s = substr
       \/ contains(Tail(s), substr)
       \/ contains(SubSeq(s, 1, Len(s) - 1), substr)

\* The bytes of the strings of the search model.
Bytes(s) ==
    CASE s = "" -> <<>>
      [] s = "a" -> <<"a">>
      [] s = "A" -> <<"A">>
      [] s = "b" -> <<"b">>
      [] s = "/" -> <<"/">>
      [] s = "Ab" -> <<"A", "b">>
      [] s = "ab" -> <<"a", "b">>
      [] s = "b/" -> <<"b", "/">>
      [] s = "b/a" -> <<"b", "/", "a">>
      [] s = "a/b" -> <<"a", "/", "b">>
      [] s = "b/Ab" -> <<"b", "/", "A", "b">>

\* History.Search, lines 113-130 (the lock is taken and released within).
Search(file, query) ==
    LET entries == readEntries(file)
    IN  SelectSeq(entries, LAMBDA entry : \/ contains(Bytes(entry.Package), Bytes(query))
                                         \/ contains(Bytes(entry.ImportPath), Bytes(query)))

\* The names, import paths and queries of the search model.
SearchAddArgs ==
    { <<"a", "b/a", ActionViewed>>,
      <<"Ab", "b/Ab", ActionInstalled>>,
      <<"b", "a/b", ActionViewed>> }

SearchQueries == {"", "a", "A", "b", "/", "Ab", "ab", "b/", "b/a"}

HistorySearch(query) ==
    /\ hret' = [op |-> "Search", args |-> query, err |-> FALSE, stored |-> FALSE, afterClear |-> FALSE,
                at |-> hnow, matches |-> Search(hfile, query)]
    /\ UNCHANGED <<hfile, hnow, maxEntries, streak, adds, cacheVars, concVars, cmd, fetchVars, pmVars, coord, hconcVars, tuiVars>>

HistSearchNext ==
    \/ \E args \in SearchAddArgs : HistoryAdd(args)
    \/ \E query \in SearchQueries : HistorySearch(query)
    \/ HistoryTick

HistoryNext ==
    \/ \E args \in AddArgs : HistoryAdd(args)
    \/ HistoryClear
    \/ HistoryTick

(***************************************************************************)
(* A long run of Add calls: each call names either the first package or a  *)
(* package not named before, so that more than the scanned number of       *)
(* entries can lie between two calls for the same package.                 *)
(***************************************************************************)
\* fmt.Sprintf("pkg%d", n), fmt.Sprintf("github.com/test/pkg%d", n)
NumberedArgs(n) == <<<<"pkg", n>>, <<"github.com/test/pkg", n>>, ActionInstalled>>

\* The number of the next package not named before.
Fresh(file) == 1 + Cardinality({file[i].package : i \in 1..Len(file)})

WindowAdd(n) ==
    LET args == NumberedArgs(n)
        a == Add(hfile, args[1], args[2], args[3])
    IN  /\ Len(hfile) < MaxWindowAdds
        /\ a.stored
        /\ hfile' = a.file
        /\ UNCHANGED <<hnow, maxEntries, hret, streak, adds, cacheVars, concVars, cmd, fetchVars, pmVars, coord, hconcVars, tuiVars>>

WindowNext ==
    \/ \E n \in {1, Fresh(hfile)} : WindowAdd(n)
    \/ HistoryTick

(***************************************************************************)
(* History.Add called from several goroutines.  The mutex is taken first   *)
(* and released on return; the steps in between are the reads and the      *)
(* write of the file.                                                      *)
(***************************************************************************)
Callers == {"a1", "a2"}

IdleCall(args) == [pc |-> "call", args |-> args, entry |-> Entry(0, "", "", ""), entries |-> <<>>]

HistConcInit(args1, args2) ==
    /\ hcall = [c \in Callers |-> IdleCall(IF c = "a1" THEN args1 ELSE args2)]
    /\ hmu = "free"

\* The lock taken whoever holds it.
AddLockNoWait(c) ==
    /\ hcall[c].pc = "call"
    /\ hmu' = c
    /\ hcall' = [hcall EXCEPT ![c].pc = "locked"]
    /\ UNCHANGED <<histVars, cacheVars, concVars, cmd, fetchVars, pmVars, coord, tuiVars>>

\* Add, line 50: h.mu.Lock()
AddLock(c) ==
    /\ hcall[c].pc = "call"
    /\ hmu = "free"
    /\ hmu' = c
    /\ hcall' = [hcall EXCEPT ![c].pc = "locked"]
    /\ UNCHANGED <<histVars, cacheVars, concVars, cmd, fetchVars, pmVars, coord, tuiVars>>

\* Add, lines 53-62: the duplicate check and the new entry.
AddCheck(c) ==
    /\ hcall[c].pc = "locked"
    /\ LET args == hcall[c].args
       IN  hcall' = IF isDuplicate(hfile, args[1], args[2], args[3])
                    THEN [hcall EXCEPT ![c].pc = "unlock"]
                    ELSE [hcall EXCEPT ![c].pc = "read", ![c].entry = Entry(hnow, args[1], args[2], args[3])]
    /\ UNCHANGED <<hmu, histVars, cacheVars, concVars, cmd, fetchVars, pmVars, coord, tuiVars>>

\* Add, line 64: readEntries.
AddRead(c) ==
    /\ hcall[c].pc = "read"
    /\ hcall' = [hcall EXCEPT ![c].pc = "write", ![c].entries = readEntries(hfile)]
    /\ UNCHANGED <<hmu, histVars, cacheVars, concVars, cmd, fetchVars, pmVars, coord, tuiVars>>

\* Add, lines 69-74: append, truncate, writeEntries.
AddWrite(c) ==
    /\ hcall[c].pc = "write"
    /\ hfile' = writeEntries(Truncate(Append(hcall[c].entries, hcall[c].entry)))
    /\ hcall' = [hcall EXCEPT ![c].pc = "unlock"]
    /\ UNCHANGED <<hmu, hnow, maxEntries, hret, streak, adds, cacheVars, concVars, cmd, fetchVars, pmVars, coord, tuiVars>>

\* Add, line 51: the deferred h.mu.Unlock()
AddUnlock(c) ==
    /\ hcall[c].pc = "unlock"
    /\ hmu' = IF hmu = c THEN "free" ELSE hmu
    /\ hcall' = [hcall EXCEPT ![c].pc = "done"]
    /\ UNCHANGED <<histVars, cacheVars, concVars, cmd, fetchVars, pmVars, coord, tuiVars>>

HistConcNext ==
    \/ \E c \in Callers : AddLock(c)
    \/ \E c \in Callers : AddCheck(c)
    \/ \E c \in Callers : AddRead(c)
    \/ \E c \in Callers : AddWrite(c)
    \/ \E c \in Callers : AddUnlock(c)
    \/ HistoryTick

(***************************************************************************)
(* Manager.GetInstallCommand (internal/packages).  A command line is a     *)
(* sequence of words, a word a sequence of the strings it is made of; the  *)
(* empty string is the empty sequence.                                     *)
(***************************************************************************)
\* fmt.Sprintf("%s@%s", pkg.ImportPath, pkg.Version)
Qualified(pkg) == <<pkg.importPath, "@", pkg.version>>

\* Installed packages listed too.
RECURSIVE CollectAll(_)
CollectAll(packages) ==
    IF packages = <<>> THEN <<>>
    ELSE LET pkg == Head(packages)
         IN  <<IF pkg.version # "" THEN Qualified(pkg) ELSE <<pkg.importPath>>>> \o CollectAll(Tail(packages))

\* GetInstallCommand, lines 93-101: the words for the packages to install.
RECURSIVE Collect(_)
Collect(packages) ==
    IF packages = <<>> THEN <<>>
    ELSE LET pkg == Head(packages)
             rest == Collect(Tail(packages))
         IN  IF ~pkg.isInstalled
             THEN (IF pkg.version # "" THEN <<Qualified(pkg)>> ELSE <<<<pkg.importPath>>>>) \o rest
             ELSE rest

GetInstallCommand(packages) ==
    LET pkgs == Collect(packages)
    IN  IF Len(pkgs) = 0 THEN <<>> ELSE <<<<"go">>, <<"get">>>> \o pkgs

\* The packages a command is asked for: any of the pool, installed or not.
Selectable == {[p EXCEPT !.isInstalled = i] : p \in PkgPool, i \in BOOLEAN}

GetInstallCommandCall ==
    /\ cmd.pc = "call"
    /\ cmd' = [cmd EXCEPT !.pc = "done", !.command = GetInstallCommand(cmd.packages)]
    /\ UNCHANGED <<cacheVars, concVars, histVars, fetchVars, pmVars, coord, hconcVars, tuiVars>>

CmdInit(ps) == cmd = [pc |-> "call", packages |-> ps, command |-> <<>>]

CmdNext == GetInstallCommandCall

(***************************************************************************)
(* Scraper (internal/scraper).  A fetched page is what the three selector  *)
(* strategies of parseResults find in it.                                  *)
(***************************************************************************)
\* A search-result element: the href and text of its title link, its
\* synopsis, and its version text; strings are sequences of their parts.
Snippet(href, text, synopsis, version) == [href |-> href, text |-> text, synopsis |-> synopsis, version |-> version]

Doc(div, article, title) == [div |-> div, article |-> article, title |-> title]

NoDoc == [div |-> <<>>, article |-> <<>>, title |-> <<>>, nil |-> TRUE]

\* strings.TrimPrefix(s, prefix) on a string given by its parts.
TrimPrefix(s, prefix) == IF s # <<>> /\ Head(s) = prefix THEN Tail(s) ELSE s

Str(parts) == IF parts = <<>> THEN "" ELSE Head(parts)

LastSegment(importPath) ==
    CASE importPath = "github.com/spf13/cobra" -> "cobra"
      [] importPath = "github.com/spf13/viper" -> "viper"
      [] importPath = "github.com/gin-gonic/gin" -> "gin"
      [] importPath = "github.com/test/pkg" -> "pkg"
      [] OTHER -> importPath

\* parsePackage: [ok, pkg]; ok is FALSE where the code returns nil.
parsePackage(sel) ==
    LET importPath == Str(TrimPrefix(sel.href, "/"))
        name == IF sel.text = "" THEN LastSegment(importPath) ELSE sel.text
        version == Str(TrimPrefix(sel.version, "v"))
    IN  IF sel.href = <<>> \/ importPath = "" THEN [ok |-> FALSE, pkg |-> Cobra]
        ELSE [ok |-> TRUE, pkg |-> Pkg(name, importPath, sel.synopsis, version, FALSE)]

RECURSIVE EachSnippet(_)
EachSnippet(sels) ==
    IF sels = <<>> THEN <<>>
    ELSE LET p == parsePackage(Head(sels))
         IN  (IF p.ok /\ p.pkg.importPath # "" THEN <<p.pkg>> ELSE <<>>) \o EachSnippet(Tail(sels))

\* parseResults, lines 330-360: the title elements taken on their own.
RECURSIVE EachTitle(_)
EachTitle(sels) ==
    IF sels = <<>> THEN <<>>
    ELSE LET sel == Head(sels)
             importPath == Str(TrimPrefix(sel.href, "/"))
             name == IF sel.text = "" THEN LastSegment(importPath) ELSE sel.text
         IN  (IF sel.href = <<>> \/ importPath = "" THEN <<>>
              ELSE <<Pkg(name, importPath, sel.synopsis, "", FALSE)>>) \o EachTitle(Tail(sels))

parseResults(doc) ==
    LET first == EachSnippet(doc.div)
        second == IF Len(first) = 0 THEN EachSnippet(doc.article) ELSE first
    IN  IF Len(second) = 0 THEN EachTitle(doc.title) ELSE second

\* The pages the server may answer with.
DocRetryTest == Doc(<<Snippet(<<"/", "github.com/test/pkg">>, "pkg", "", <<>>)>>, <<>>, <<>>)

DocCobraViper ==
    Doc(<<Snippet(<<"/", "github.com/spf13/cobra">>, "cobra", "A Commander for modern Go CLI interactions", <<>>),
          Snippet(<<"/", "github.com/spf13/viper">>, "viper", "Go configuration with fangs", <<>>)>>,
        <<>>, <<>>)

DocArticles ==
    Doc(<<Snippet(<<>>, "broken", "", <<>>)>>,
        <<Snippet(<<"/", "github.com/gin-gonic/gin">>, "", "", <<"v", "1.8.1">>)>>,
        <<Snippet(<<"/", "github.com/spf13/viper">>, "viper", "", <<>>)>>)

DocNothing == Doc(<<>>, <<>>, <<>>)

Docs == {DocRetryTest, DocCobraViper, DocArticles, DocNothing}

\* What one request may come back with.
Response(kind, doc) == [kind |-> kind, doc |-> doc]

Responses ==
    {Response("transport error", DocNothing), Response("status 500", DocNothing), Response("unparsable", DocNothing)}
    \cup {Response("ok", d) : d \in Docs}

WithNil(doc, nil) == [div |-> doc.div, article |-> doc.article, title |-> doc.title, nil |-> nil]

IdleSearch(q) == [pc |-> "entry", query |-> q, attempt |-> 0, doc |-> NoDoc, lastErr |-> "", results |-> <<>>, err |-> FALSE]

\* 1 << n
RECURSIVE ShlFrom2(_)
ShlFrom2(n) == IF n = 0 THEN 2 ELSE 2 * ShlFrom2(n - 1)

RECURSIVE Shl1(_)
Shl1(n) == IF n = 0 THEN 1 ELSE 2 * Shl1(n - 1)

\* The empty query sent to the server like any other.
SearchEntryNoGuard ==
    /\ search.pc = "entry"
    /\ search' = [search EXCEPT !.pc = "loop"]
    /\ UNCHANGED <<maxRetries, net, cacheVars, concVars, histVars, cmd, pmVars, coord, hconcVars, tuiVars>>

\* Search, lines 269-271: the empty query returns at once.
SearchEntry ==
    /\ search.pc = "entry"
    /\ search' = IF search.query = "" THEN [search EXCEPT !.pc = "done"] ELSE [search EXCEPT !.pc = "loop"]
    /\ UNCHANGED <<maxRetries, net, cacheVars, concVars, histVars, cmd, pmVars, coord, hconcVars, tuiVars>>

\* One attempt more than maxRetries.
SearchLoopInclusive ==
    /\ search.pc = "loop"
    /\ IF search.attempt <= maxRetries
       THEN /\ search' = [search EXCEPT !.pc = "get"]
            /\ net' = IF search.attempt > 0
                      THEN [net EXCEPT !.slept = Append(@, Shl1(search.attempt - 1))]
                      ELSE net
       ELSE /\ search' = [search EXCEPT !.pc = "after"]
            /\ net' = net
    /\ UNCHANGED <<maxRetries, cacheVars, concVars, histVars, cmd, pmVars, coord, hconcVars, tuiVars>>

\* Search, lines 278-282: the loop test, and the backoff before a retry.
SearchLoop ==
    /\ search.pc = "loop"
    /\ IF search.attempt < maxRetries
       THEN /\ search' = [search EXCEPT !.pc = "get"]
            /\ net' = IF search.attempt > 0
                      THEN [net EXCEPT !.slept = Append(@, Shl1(search.attempt - 1))]
                      ELSE net
       ELSE /\ search' = [search EXCEPT !.pc = "after"]
            /\ net' = net
    /\ UNCHANGED <<maxRetries, cacheVars, concVars, histVars, cmd, pmVars, coord, hconcVars, tuiVars>>

\* A successful attempt that does not leave the loop.
SearchAttemptNoBreak(resp) ==
    /\ search.pc = "get"
    /\ net' = [net EXCEPT !.responses = Append(@, resp)]
    /\ search' = IF resp.kind = "ok"
                 THEN [search EXCEPT !.pc = "loop", !.attempt = @ + 1, !.doc = WithNil(resp.doc, FALSE)]
                 ELSE [search EXCEPT !.pc = "loop", !.attempt = @ + 1, !.lastErr = resp.kind]
    /\ UNCHANGED <<maxRetries, cacheVars, concVars, histVars, cmd, pmVars, coord, hconcVars, tuiVars>>

\* Search, lines 284-300: one request and what is made of its response.
SearchAttempt(resp) ==
    /\ search.pc = "get"
    /\ net' = [net EXCEPT !.responses = Append(@, resp)]
    /\ search' = IF resp.kind = "ok"
                 THEN [search EXCEPT !.pc = "after", !.doc = WithNil(resp.doc, FALSE)]
                 ELSE [search EXCEPT !.pc = "loop", !.attempt = @ + 1, !.lastErr = resp.kind]
    /\ UNCHANGED <<maxRetries, cacheVars, concVars, histVars, cmd, pmVars, coord, hconcVars, tuiVars>>

\* Search, lines 303-307.
SearchReturn ==
    /\ search.pc = "after"
    /\ search' = IF search.doc.nil
                 THEN [search EXCEPT !.pc = "done", !.results = <<>>, !.err = TRUE]
                 ELSE [search EXCEPT !.pc = "done", !.results = parseResults(search.doc), !.err = FALSE]
    /\ UNCHANGED <<maxRetries, net, cacheVars, concVars, histVars, cmd, pmVars, coord, hconcVars, tuiVars>>

\* A scraper retrying up to n times, and a Search(q) about to start.
FetchInit(q, n) ==
    /\ search = IdleSearch(q)
    /\ maxRetries = n
    /\ net = [responses |-> <<>>, slept |-> <<>>]

FetchNext ==
    \/ SearchEntry
    \/ SearchLoop
    \/ \E resp \in Responses : SearchAttempt(resp)
    \/ SearchReturn

(***************************************************************************)
(* Manager.IsInstalled and MarkInstalledPackages (internal/packages).      *)
(* installedCache is the map of answers already given.                     *)
(***************************************************************************)
\* strings.Split(importPath, "/")
Parts(importPath) ==
    CASE importPath = "github.com/spf13/cobra" -> <<"github.com", "spf13", "cobra">>
      [] importPath = "github.com/spf13/viper" -> <<"github.com", "spf13", "viper">>
      [] importPath = "github.com/gin-gonic/gin" -> <<"github.com", "gin-gonic", "gin">>
      [] importPath = "github.com/test/pkg" -> <<"github.com", "test", "pkg">>
      [] OTHER -> <<importPath>>

\* checkInstalled: a directory of the module cache or `go list -m` knows the path.
checkInstalled(importPath) ==
    IF Len(Parts(importPath)) < 2 THEN FALSE ELSE importPath \in goMod

IsInstalledNoMemo(ic, importPath) ==
    LET installed == checkInstalled(importPath)
    IN  [installed |-> installed, probed |-> TRUE,
         ic |-> [p \in DOMAIN ic \cup {importPath} |-> IF p = importPath THEN installed ELSE ic[p]]]

\* IsInstalled with the map ic: [installed, ic], and whether checkInstalled ran.
IsInstalled(ic, importPath) ==
    IF importPath \in DOMAIN ic THEN [installed |-> ic[importPath], probed |-> FALSE, ic |-> ic]
    ELSE LET installed == checkInstalled(importPath)
         IN  [installed |-> installed, probed |-> TRUE,
              ic |-> [p \in DOMAIN ic \cup {importPath} |-> IF p = importPath THEN installed ELSE ic[p]]]

\* MarkInstalledPackages with the map ic: [packages, ic].
RECURSIVE MarkInstalledPackages(_, _)
MarkInstalledPackages(ic, packages) ==
    IF packages = <<>> THEN [packages |-> <<>>, ic |-> ic]
    ELSE LET pkg == Head(packages)
             one == IsInstalled(ic, pkg.importPath)
             rest == MarkInstalledPackages(one.ic, Tail(packages))
         IN  [packages |-> <<[pkg EXCEPT !.isInstalled = one.installed]>> \o rest.packages, ic |-> rest.ic]

\* The map without the answer for importPath: delete(m.installedCache, importPath).
Forget(ic, importPath) == [p \in DOMAIN ic \ {importPath} |-> ic[p]]

\* float64(i+1)/float64(total)*100, kept as a fraction.
PercentOf(i, total) == [num |-> (i + 1) * 100, den |-> total]

Hundred == [num |-> 100, den |-> 1]

\* A call of the progress callback, by the call itself or by a goroutine
\* that forwards the installer's output.
Report(by, kind, importPath, percent) == [by |-> by, kind |-> kind, path |-> importPath, percent |-> percent]

\* A call of the package manager on a path and what it answered.
Asked(op, importPath, installed, probed) == [op |-> op, path |-> importPath, installed |-> installed, probed |-> probed]

NoCall == Asked("none", "", FALSE, FALSE)

\* InstallPackages(packages, progress) about to start.
IdleInstall(packages) ==
    [pc |-> "loop", packages |-> packages, i |-> 0, reports |-> <<>>, invoked |-> <<>>, failed |-> <<>>, scanning |-> {},
     ret |-> "none", asked |-> NoCall]

\* InstallPackages, lines 171-176: the package is marked installed.
InstallSkip ==
    /\ inst.pc = "loop"
    /\ inst.i < Len(inst.packages)
    /\ LET pkg == inst.packages[inst.i + 1]
       IN  /\ pkg.isInstalled
           /\ inst' = [inst EXCEPT !.i = @ + 1,
                                    !.reports = Append(@, Report("call", "already installed", pkg.importPath,
                                                                 PercentOf(inst.i, Len(inst.packages))))]
    /\ UNCHANGED <<probe, run, goMod, installedCache, cacheVars, concVars, histVars, cmd, fetchVars, coord, hconcVars, tuiVars>>

InstallRunContinue(ok) ==
    /\ inst.pc = "loop"
    /\ inst.i < Len(inst.packages)
    /\ LET pkg == inst.packages[inst.i + 1]
           percent == PercentOf(inst.i, Len(inst.packages))
           started == [inst EXCEPT !.invoked = Append(@, pkg.importPath), !.scanning = @ \cup {inst.i},
                                   !.reports = Append(@, Report("call", "installing", pkg.importPath, percent))]
       IN  /\ ~pkg.isInstalled
           /\ installedCache' = Forget(installedCache, pkg.importPath)
           /\ IF ok
              THEN /\ goMod' = goMod \cup {pkg.importPath}
                   /\ inst' = [started EXCEPT !.i = @ + 1,
                                               !.reports = Append(@, Report("call", "installed", pkg.importPath, percent))]
              ELSE /\ goMod' = goMod
                   /\ inst' = [started EXCEPT !.i = @ + 1, !.failed = Append(@, pkg.importPath)]
    /\ UNCHANGED <<probe, run, cacheVars, concVars, histVars, cmd, fetchVars, coord, hconcVars, tuiVars>>

\* InstallPackages, lines 178-186, with InstallPackage (lines 110-165): the
\* memo of the path is dropped, `go get` runs and ends well or not.
InstallRun(ok) ==
    /\ inst.pc = "loop"
    /\ inst.i < Len(inst.packages)
    /\ LET pkg == inst.packages[inst.i + 1]
           percent == PercentOf(inst.i, Len(inst.packages))
           started == [inst EXCEPT !.invoked = Append(@, pkg.importPath), !.scanning = @ \cup {inst.i},
                                   !.reports = Append(@, Report("call", "installing", pkg.importPath, percent))]
       IN  /\ ~pkg.isInstalled
           /\ installedCache' = Forget(installedCache, pkg.importPath)
           /\ IF ok
              THEN /\ goMod' = goMod \cup {pkg.importPath}
                   /\ inst' = [started EXCEPT !.i = @ + 1,
                                               !.reports = Append(@, Report("call", "installed", pkg.importPath, percent))]
              ELSE /\ goMod' = goMod
                   /\ inst' = [started EXCEPT !.pc = "done", !.ret = "error", !.failed = Append(@, pkg.importPath)]
    /\ UNCHANGED <<probe, run, cacheVars, concVars, histVars, cmd, fetchVars, coord, hconcVars, tuiVars>>

\* InstallPackage, lines 133-151: a goroutine scanning the output of the
\* installer run for package j forwards a line; nothing waits for it.
InstallOutput(j) ==
    /\ j \in inst.scanning
    /\ inst' = [inst EXCEPT !.scanning = @ \ {j},
                             !.reports = Append(@, Report("scanner", "output", inst.packages[j + 1].importPath,
                                                          PercentOf(j, Len(inst.packages))))]
    /\ UNCHANGED <<probe, run, goMod, installedCache, cacheVars, concVars, histVars, cmd, fetchVars, coord, hconcVars, tuiVars>>

\* InstallPackages, lines 189-193: every package went through.
InstallFinish ==
    /\ inst.pc = "loop"
    /\ inst.i = Len(inst.packages)
    /\ inst' = [inst EXCEPT !.pc = "done", !.ret = "nil",
                             !.reports = Append(@, Report("call", "all installed", "", Hundred))]
    /\ UNCHANGED <<probe, run, goMod, installedCache, cacheVars, concVars, histVars, cmd, fetchVars, coord, hconcVars, tuiVars>>

\* The import paths the package manager is asked about.
PmPaths == {Cobra.importPath, Viper.importPath, "fmt"}

(***************************************************************************)
(* IsInstalled called from one goroutine while another calls               *)
(* InstallPackage or RefreshCache.  The mutex covers the lookup, the store *)
(* and the two invalidations of the map, each a step; checkInstalled runs  *)
(* between lookup and store without the mutex.                             *)
(***************************************************************************)
\* No IsInstalled and no InstallPackage call in progress.  before: an
\* invalidation came after the value in hand was probed; stale: the paths
\* whose memo was stored from such a value; ipc, ipath: InstallPackage.
IdleProbe ==
    [pc |-> "idle", path |-> "", installed |-> FALSE, before |-> FALSE, stale |-> {}, ipc |-> "idle", ipath |-> ""]

\* IsInstalled, lines 29-34: the lookup under the read lock.
IsInstalledLookup(importPath) ==
    /\ probe.pc = "idle"
    /\ probe' = IF importPath \in DOMAIN installedCache
                THEN [probe EXCEPT !.path = importPath, !.installed = installedCache[importPath]]
                ELSE [probe EXCEPT !.pc = "check", !.path = importPath, !.before = FALSE]
    /\ UNCHANGED <<goMod, installedCache, inst, run, cacheVars, concVars, histVars, cmd, fetchVars, coord, hconcVars, tuiVars>>

\* IsInstalled, line 36: checkInstalled looks into the module cache.
IsInstalledCheck ==
    /\ probe.pc = "check"
    /\ probe' = [probe EXCEPT !.pc = "store", !.installed = checkInstalled(probe.path)]
    /\ UNCHANGED <<goMod, installedCache, inst, run, cacheVars, concVars, histVars, cmd, fetchVars, coord, hconcVars, tuiVars>>

\* IsInstalled, lines 38-42: the store under the lock, and the return.
IsInstalledStore ==
    /\ probe.pc = "store"
    /\ installedCache' = [p \in DOMAIN installedCache \cup {probe.path} |->
                             IF p = probe.path THEN probe.installed ELSE installedCache[p]]
    /\ probe' = [probe EXCEPT !.pc = "idle", !.before = FALSE,
                              !.stale = IF probe.before THEN @ \cup {probe.path} ELSE @ \ {probe.path}]
    /\ UNCHANGED <<goMod, inst, run, cacheVars, concVars, histVars, cmd, fetchVars, coord, hconcVars, tuiVars>>

\* InstallPackage, lines 111-113: the memo of the path is deleted.
InstallPackageForget(importPath) ==
    /\ probe.ipc = "idle"
    /\ installedCache' = Forget(installedCache, importPath)
    /\ probe' = [probe EXCEPT !.ipc = "run", !.ipath = importPath, !.stale = @ \ {importPath},
                              !.before = @ \/ (probe.pc = "store" /\ probe.path = importPath)]
    /\ UNCHANGED <<goMod, inst, run, cacheVars, concVars, histVars, cmd, fetchVars, coord, hconcVars, tuiVars>>

\* InstallPackage, lines 115-164: `go get` runs, ends well or not, and the call returns.
InstallPackageReturn(ok) ==
    /\ probe.ipc = "run"
    /\ goMod' = IF ok THEN goMod \cup {probe.ipath} ELSE goMod
    /\ probe' = [probe EXCEPT !.ipc = "idle"]
    /\ UNCHANGED <<installedCache, inst, run, cacheVars, concVars, histVars, cmd, fetchVars, coord, hconcVars, tuiVars>>

\* RefreshCache, lines 196-200.
RefreshCacheCall ==
    /\ installedCache' = <<>>
    /\ probe' = [probe EXCEPT !.stale = {}, !.before = @ \/ probe.pc = "store"]
    /\ UNCHANGED <<goMod, inst, run, cacheVars, concVars, histVars, cmd, fetchVars, coord, hconcVars, tuiVars>>

PmConcNext ==
    \/ \E importPath \in PmPaths : IsInstalledLookup(importPath)
    \/ IsInstalledCheck
    \/ IsInstalledStore
    \/ \E importPath \in PmPaths : InstallPackageForget(importPath)
    \/ \E ok \in BOOLEAN : InstallPackageReturn(ok)
    \/ RefreshCacheCall

(***************************************************************************)
(* Manager.InstallPackage with its subprocess: the subprocess writes its   *)
(* lines into two pipes and exits; one goroutine per pipe reads a line and *)
(* hands it to the progress callback; the call waits for the subprocess    *)
(* only, and cmd.Wait closes both pipes once the subprocess has exited.    *)
(***************************************************************************)
\* strings.Contains(line, "downloading")
Downloading(line) == line \in {"go: downloading m v1"}

\* A call of the progress callback and whether the call had returned by then.
Progress(line, late) == [line |-> line, late |-> late]

\* InstallPackage(importPath, progress) not yet called; stdout and stderr are
\* the lines the subprocess is going to write.
IdleRun(importPath, stdout, stderr) ==
    [pc |-> "idle", path |-> importPath, stdout |-> stdout, stderr |-> stderr, nout |-> 0, nerr |-> 0,
     pipeOut |-> <<>>, pipeErr |-> <<>>, heldOut |-> <<>>, heldErr |-> <<>>, errPc |-> "scan",
     errOutput |-> <<>>, calls |-> <<>>, ok |-> FALSE, ret |-> [err |-> FALSE, text |-> <<>>]]

\* lines 111-131: the memo is dropped, the start is reported, the subprocess started.
PkgStart ==
    /\ run.pc = "idle"
    /\ installedCache' = Forget(installedCache, run.path)
    /\ run' = [run EXCEPT !.pc = "running", !.calls = Append(@, Progress("Installing", FALSE))]
    /\ UNCHANGED <<probe, goMod, inst, cacheVars, concVars, histVars, cmd, fetchVars, coord, hconcVars, tuiVars>>

\* The subprocess writes its next line to standard output.
ProcWriteOut ==
    /\ run.pc = "running"
    /\ run.nout < Len(run.stdout)
    /\ run' = [run EXCEPT !.nout = @ + 1, !.pipeOut = Append(@, run.stdout[run.nout + 1])]
    /\ UNCHANGED <<probe, goMod, installedCache, inst, cacheVars, concVars, histVars, cmd, fetchVars, coord, hconcVars, tuiVars>>

\* The subprocess writes its next line to standard error.
ProcWriteErr ==
    /\ run.pc = "running"
    /\ run.nerr < Len(run.stderr)
    /\ run' = [run EXCEPT !.nerr = @ + 1, !.pipeErr = Append(@, run.stderr[run.nerr + 1])]
    /\ UNCHANGED <<probe, goMod, installedCache, inst, cacheVars, concVars, histVars, cmd, fetchVars, coord, hconcVars, tuiVars>>

\* The subprocess exits, with status 0 or not, having written all its lines.
ProcExit(ok) ==
    /\ run.pc = "running"
    /\ run.nout = Len(run.stdout) /\ run.nerr = Len(run.stderr)
    /\ run' = [run EXCEPT !.pc = "exited", !.ok = ok]
    /\ goMod' = IF ok THEN goMod \cup {run.path} ELSE goMod
    /\ UNCHANGED <<probe, installedCache, inst, cacheVars, concVars, histVars, cmd, fetchVars, coord, hconcVars, tuiVars>>

\* lines 134-135: scanner.Scan() returns a line of standard output.
ScanOut ==
    /\ run.pipeOut # <<>> /\ run.heldOut = <<>>
    /\ run' = [run EXCEPT !.pipeOut = Tail(@), !.heldOut = <<Head(run.pipeOut)>>]
    /\ UNCHANGED <<probe, goMod, installedCache, inst, cacheVars, concVars, histVars, cmd, fetchVars, coord, hconcVars, tuiVars>>

\* lines 136-138: progress(scanner.Text())
ForwardOut ==
    /\ run.heldOut # <<>>
    /\ run' = [run EXCEPT !.heldOut = <<>>, !.calls = Append(@, Progress(run.heldOut[1], run.pc = "returned"))]
    /\ UNCHANGED <<probe, goMod, installedCache, inst, cacheVars, concVars, histVars, cmd, fetchVars, coord, hconcVars, tuiVars>>

\* lines 145-146: errScanner.Scan() returns a line of standard error.
ScanErr ==
    /\ run.pipeErr # <<>> /\ run.heldErr = <<>>
    /\ run' = [run EXCEPT !.pipeErr = Tail(@), !.heldErr = <<Head(run.pipeErr)>>, !.errPc = "capture"]
    /\ UNCHANGED <<probe, goMod, installedCache, inst, cacheVars, concVars, histVars, cmd, fetchVars, coord, hconcVars, tuiVars>>

\* line 147: errOutput.WriteString(line + "\n")
CaptureErr ==
    /\ run.heldErr # <<>> /\ run.errPc = "capture"
    /\ run' = [run EXCEPT !.errOutput = Append(@, run.heldErr[1]), !.errPc = "forward"]
    /\ UNCHANGED <<probe, goMod, installedCache, inst, cacheVars, concVars, histVars, cmd, fetchVars, coord, hconcVars, tuiVars>>

\* lines 148-150: the line goes to the callback if it holds the marker.
ForwardErr ==
    /\ run.heldErr # <<>> /\ run.errPc = "forward"
    /\ run' = [run EXCEPT !.heldErr = <<>>, !.errPc = "scan",
                          !.calls = IF Downloading(run.heldErr[1])
                                    THEN Append(@, Progress(run.heldErr[1], run.pc = "returned")) ELSE @]
    /\ UNCHANGED <<probe, goMod, installedCache, inst, cacheVars, concVars, histVars, cmd, fetchVars, coord, hconcVars, tuiVars>>

\* lines 153-164: cmd.Wait returns once the subprocess has exited and closes
\* the pipes, what was not read from them is gone; the call returns the error
\* with the text captured so far, or reports the success and returns nil.
PkgWait ==
    /\ run.pc = "exited"
    /\ run' = [run EXCEPT !.pc = "returned", !.pipeOut = <<>>, !.pipeErr = <<>>,
                          !.ret = IF run.ok THEN [err |-> FALSE, text |-> <<>>] ELSE [err |-> TRUE, text |-> run.errOutput],
                          !.calls = IF run.ok THEN Append(@, Progress("installed successfully", FALSE)) ELSE @]
    /\ UNCHANGED <<probe, goMod, installedCache, inst, cacheVars, concVars, histVars, cmd, fetchVars, coord, hconcVars, tuiVars>>

PkgNext ==
    \/ PkgStart
    \/ ProcWriteOut
    \/ ProcWriteErr
    \/ \E ok \in BOOLEAN : ProcExit(ok)
    \/ ScanOut
    \/ ForwardOut
    \/ ScanErr
    \/ CaptureErr
    \/ ForwardErr
    \/ PkgWait

\* IsInstalled(importPath)
PmIsInstalled(importPath) ==
    /\ LET r == IsInstalled(installedCache, importPath)
       IN  /\ installedCache' = r.ic
           /\ inst' = [inst EXCEPT !.asked = Asked("IsInstalled", importPath, r.installed, r.probed)]
    /\ UNCHANGED <<probe, run, goMod, cacheVars, concVars, histVars, cmd, fetchVars, coord, hconcVars, tuiVars>>

\* InstallPackage(importPath, nil): the memo of the path is dropped, then
\* `go get` runs and ends well or not.
PmInstallPackage(importPath, ok) ==
    /\ installedCache' = Forget(installedCache, importPath)
    /\ goMod' = IF ok THEN goMod \cup {importPath} ELSE goMod
    /\ inst' = [inst EXCEPT !.asked = Asked("InstallPackage", importPath, ok, FALSE)]
    /\ UNCHANGED <<probe, run, cacheVars, concVars, histVars, cmd, fetchVars, coord, hconcVars, tuiVars>>

\* RefreshCache()
PmRefreshCache ==
    /\ installedCache' = <<>>
    /\ inst' = [inst EXCEPT !.asked = Asked("RefreshCache", "", FALSE, FALSE)]
    /\ UNCHANGED <<probe, run, goMod, cacheVars, concVars, histVars, cmd, fetchVars, coord, hconcVars, tuiVars>>

\* The module cache changes outside the program: a module is fetched or
\* the cache is cleaned of it.
GoModChange(importPath) ==
    /\ goMod' = IF importPath \in goMod THEN goMod \ {importPath} ELSE goMod \cup {importPath}
    /\ inst' = [inst EXCEPT !.asked = NoCall]
    /\ UNCHANGED <<probe, run, installedCache, cacheVars, concVars, histVars, cmd, fetchVars, coord, hconcVars, tuiVars>>

PmNext ==
    \/ \E importPath \in PmPaths : PmIsInstalled(importPath)
    \/ \E importPath \in PmPaths, ok \in BOOLEAN : PmInstallPackage(importPath, ok)
    \/ PmRefreshCache
    \/ \E importPath \in PmPaths : GoModChange(importPath)

InstallNext ==
    \/ InstallSkip
    \/ \E ok \in BOOLEAN : InstallRun(ok)
    \/ \E j \in inst.scanning : InstallOutput(j)
    \/ InstallFinish

\* packages.New with mods in the module cache, and an InstallPackages call
\* on the packages ps.
PmInitWith(mods, ps) ==
    /\ goMod = mods
    /\ installedCache = <<>>
    /\ inst = IdleInstall(ps)
    /\ probe = IdleProbe
    /\ run = IdleRun("", <<>>, <<>>)

\* packages.New: nothing asked yet; mods is what the module cache holds.
PmInit(mods) == PmInitWith(mods, <<>>)

(***************************************************************************)
(* Model.performSearch (internal/tui): the command that looks a query up   *)
(* in the cache, fetches it on a miss and stores what it fetched.  It runs *)
(* outside Update, so the cache can change between its calls.              *)
(***************************************************************************)
\* What Scraper.Search can return for a non-empty query.
SearchOutcomes ==
    {[err |-> TRUE, results |-> <<>>]} \cup {[err |-> FALSE, results |-> parseResults(d)] : d \in Docs}

NoMsg == [packages |-> <<>>, fromCache |-> FALSE, err |-> FALSE]

\* searchResultsMsg
searchResultsMsg(packages, fromCache, err) == [packages |-> packages, fromCache |-> fromCache, err |-> err]

\* prior is the record on disk when the call looked the query up.
IdleCoord(q) ==
    [pc |-> "lookup", query |-> q, packages |-> <<>>, err |-> FALSE, msg |-> NoMsg,
     prior |-> NoEntry, missed |-> FALSE, fallback |-> FALSE]

CoordInit(q) == coord = IdleCoord(q)

\* performSearch, lines 247-253: the first lookup.
CoordLookup ==
    /\ coord.pc = "lookup"
    /\ LET g == Get(cfs, coord.query)
           rd == FsReadFile(cfs, getFilename(coord.query))
           um == Unmarshal(rd.data)
           prior == IF ~rd.err /\ um.ok THEN um.entry ELSE NoEntry
           mk == MarkInstalledPackages(installedCache, g.entry.results)
       IN  /\ cfs' = g.fs
           /\ IF g.found
              THEN /\ coord' = [coord EXCEPT !.pc = "done", !.prior = prior,
                                             !.msg = searchResultsMsg(mk.packages, TRUE, FALSE)]
                   /\ installedCache' = mk.ic
              ELSE /\ coord' = [coord EXCEPT !.pc = "fetch", !.prior = prior, !.missed = TRUE]
                   /\ installedCache' = installedCache
    /\ UNCHANGED <<probe, run, cnow, ttlDays, cret, lastSet, concVars, histVars, cmd, fetchVars, goMod, inst, hconcVars, tuiVars>>

\* performSearch, line 255: the fetch.
CoordFetch(out) ==
    /\ coord.pc = "fetch"
    /\ coord' = [coord EXCEPT !.pc = IF out.err THEN "fallback" ELSE "store",
                              !.packages = out.results, !.err = out.err]
    /\ UNCHANGED <<cacheVars, concVars, histVars, cmd, fetchVars, pmVars, hconcVars, tuiVars>>

\* performSearch, lines 256-262: the second lookup after a failed fetch.
CoordFallback ==
    /\ coord.pc = "fallback"
    /\ LET g == Get(cfs, coord.query)
       IN  /\ cfs' = g.fs
           /\ coord' = IF g.found
                       THEN [coord EXCEPT !.pc = "store", !.packages = g.entry.results, !.fallback = TRUE]
                       ELSE [coord EXCEPT !.pc = "done", !.msg = searchResultsMsg(<<>>, FALSE, TRUE)]
    /\ UNCHANGED <<cnow, ttlDays, cret, lastSet, concVars, histVars, cmd, fetchVars, pmVars, hconcVars, tuiVars>>

\* performSearch storing whatever it answers with, fetched or not.
CoordStoreAlways ==
    /\ coord.pc = "store"
    /\ LET mk == MarkInstalledPackages(installedCache, coord.packages)
       IN  /\ installedCache' = mk.ic
           /\ cfs' = Set(cfs, coord.query, mk.packages).fs
           /\ coord' = [coord EXCEPT !.pc = "done", !.packages = mk.packages,
                                     !.msg = searchResultsMsg(mk.packages, FALSE, FALSE)]
    /\ UNCHANGED <<probe, run, cnow, ttlDays, cret, lastSet, concVars, histVars, cmd, fetchVars, goMod, inst, hconcVars, tuiVars>>

\* performSearch, lines 264-272: mark, store what was fetched, answer.
CoordStore ==
    /\ coord.pc = "store"
    /\ LET mk == MarkInstalledPackages(installedCache, coord.packages)
       IN  /\ installedCache' = mk.ic
           /\ cfs' = IF ~coord.err THEN Set(cfs, coord.query, mk.packages).fs ELSE cfs
           /\ coord' = [coord EXCEPT !.pc = "done", !.packages = mk.packages,
                                     !.msg = searchResultsMsg(mk.packages, FALSE, FALSE)]
    /\ UNCHANGED <<probe, run, cnow, ttlDays, cret, lastSet, concVars, histVars, cmd, fetchVars, goMod, inst, hconcVars, tuiVars>>

\* Another search of the same query stores its results meanwhile.
OtherSearchStores(r) ==
    /\ coord.pc \in {"fetch", "fallback"}
    /\ cfs' = Set(cfs, coord.query, r).fs
    /\ UNCHANGED <<cnow, ttlDays, cret, lastSet, concVars, histVars, cmd, fetchVars, pmVars, coord, hconcVars, tuiVars>>

CoordNext ==
    \/ CoordLookup
    \/ \E out \in SearchOutcomes : CoordFetch(out)
    \/ CoordFallback
    \/ CoordStore
    \/ \E r \in ResultLists : OtherSearchStores(r)
    \/ CacheTick

(***************************************************************************)
(* The cache under concurrent callers: every system call is a step.  Each  *)
(* writer makes one Set call and the reader makes Get calls, all on the    *)
(* same query; the directory may hold a record from an earlier run.        *)
(***************************************************************************)
ConcQuery == "cobra"

Held == {writer[w].fd : w \in Writers} \ {NoInode}

\* Set, lines 66-78: the entry is stamped and marshalled.
SetBegin(w, q, r) ==
    /\ writer[w].pc = "idle"
    /\ writer' = [writer EXCEPT ![w] = [pc |-> "open", fd |-> NoInode, entry |-> CacheEntry(q, r, cnow), err |-> FALSE]]
    /\ UNCHANGED <<cacheVars, reader, histVars, cmd, fetchVars, pmVars, coord, hconcVars, tuiVars>>

\* Set, line 81: os.WriteFile opens the temporary path.
SetOpen(w) ==
    /\ writer[w].pc = "open"
    /\ LET o == FsOpenTrunc(cfs, TempPath(getFilename(writer[w].entry.query)), Held)
       IN  /\ cfs' = o.fs
           /\ writer' = [writer EXCEPT ![w] = IF o.err THEN [@ EXCEPT !.pc = "done", !.err = TRUE]
                                               ELSE [@ EXCEPT !.pc = "write", !.fd = o.fd]]
    /\ UNCHANGED <<cnow, ttlDays, cret, lastSet, reader, histVars, cmd, fetchVars, pmVars, coord, hconcVars, tuiVars>>

\* Set, line 81: os.WriteFile writes the bytes and closes the descriptor.
SetWrite(w) ==
    /\ writer[w].pc = "write"
    /\ writer' = [writer EXCEPT ![w] = [@ EXCEPT !.pc = "rename", !.fd = NoInode]]
    /\ cfs' = FsCollect(FsWrite(cfs, writer[w].fd, MarshalIndent(writer[w].entry)), Held \ {writer[w].fd})
    /\ UNCHANGED <<cnow, ttlDays, cret, lastSet, reader, histVars, cmd, fetchVars, pmVars, coord, hconcVars, tuiVars>>

\* Set, line 85: os.Rename of the temporary path over the target path.
SetRename(w) ==
    /\ writer[w].pc = "rename"
    /\ LET path == getFilename(writer[w].entry.query)
           r == FsRename(cfs, TempPath(path), path, Held)
       IN  /\ cfs' = r.fs
           /\ writer' = [writer EXCEPT ![w] = [@ EXCEPT !.pc = IF r.err THEN "cleanup" ELSE "done"]]
    /\ UNCHANGED <<cnow, ttlDays, cret, lastSet, reader, histVars, cmd, fetchVars, pmVars, coord, hconcVars, tuiVars>>

\* Set, lines 86-87: the rename failed; remove the temporary path, return the error.
SetCleanup(w) ==
    /\ writer[w].pc = "cleanup"
    /\ cfs' = FsRemove(cfs, TempPath(getFilename(writer[w].entry.query)), Held).fs
    /\ writer' = [writer EXCEPT ![w] = [@ EXCEPT !.pc = "done", !.err = TRUE]]
    /\ UNCHANGED <<cnow, ttlDays, cret, lastSet, reader, histVars, cmd, fetchVars, pmVars, coord, hconcVars, tuiVars>>

\* Get, lines 44-62 up to the decision: read, decode, check the age.
GetRead(q) ==
    /\ reader.pc = "idle"
    /\ LET rd == FsReadFile(cfs, getFilename(q))
           um == Unmarshal(rd.data)
       IN  reader' = IF rd.err THEN [pc |-> "idle", query |-> q, outcome |-> "absent", entry |-> NoEntry]
                     ELSE IF ~um.ok THEN [pc |-> "idle", query |-> q, outcome |-> "undecodable", entry |-> NoEntry]
                     ELSE IF isExpired(um.entry.timestamp)
                     THEN [pc |-> "remove", query |-> q, outcome |-> "expired", entry |-> NoEntry]
                     ELSE [pc |-> "idle", query |-> q, outcome |-> "found", entry |-> um.entry]
    /\ UNCHANGED <<cacheVars, writer, histVars, cmd, fetchVars, pmVars, coord, hconcVars, tuiVars>>

\* Get, line 58: os.Remove of the target path.
GetRemove ==
    /\ reader.pc = "remove"
    /\ cfs' = FsRemove(cfs, getFilename(reader.query), Held).fs
    /\ reader' = [reader EXCEPT !.pc = "idle"]
    /\ UNCHANGED <<cnow, ttlDays, cret, lastSet, writer, histVars, cmd, fetchVars, pmVars, coord, hconcVars, tuiVars>>

ConcNext ==
    \/ \E w \in Writers, r \in ResultLists : SetBegin(w, ConcQuery, r)
    \/ \E w \in Writers : SetOpen(w)
    \/ \E w \in Writers : SetWrite(w)
    \/ \E w \in Writers : SetRename(w)
    \/ \E w \in Writers : SetCleanup(w)
    \/ GetRead(ConcQuery)
    \/ GetRemove

\* The record an earlier run left for the query, written a day ago.
EarlierRecord == CacheEntry(ConcQuery, <<Gin>>, 0)

\* The cache as an earlier run left it, a day later.
ConcInit(days, fs) ==
    /\ cfs = fs
    /\ cnow = 1
    /\ ttlDays = days
    /\ cret = [op |-> "none", query |-> "", found |-> FALSE, entry |-> NoEntry, err |-> FALSE, had |-> {}]
    /\ lastSet = NoSets
    /\ writer = [w \in Writers |-> IdleWriter]
    /\ reader = IdleReader

(***************************************************************************)
(* The session (internal/tui): Model, its Update, and the debounce         *)
(* commands Update returns, which bubbletea runs in goroutines of their    *)
(* own.  selected is the set of indices the map holds true for.            *)
(***************************************************************************)
ViewSearch == "Search"

ViewOptions == "Options"

ViewInstalling == "Installing"

ViewCommands == "Commands"

\* tea.KeyMsg: the key types Update tells apart, and the runes typed.
Runes == {"g", "d", "Q"}

KeyMsg(type, runes) == [type |-> type, runes |-> runes]

Keys ==
    {KeyMsg(t, "") : t \in {"ctrl+c", "esc", "up", "down", "tab", "enter", "ctrl+h", "ctrl+q", "ctrl+a", "ctrl+n",
                            "backspace"}}
    \cup {KeyMsg("runes", r) : r \in Runes}

\* The result lists a search may answer with, marked by MarkInstalledPackages.
SessionResults == {<<>>, <<Cobra, Viper>>}

\* The messages performSearch may return.
SessionOutcomes ==
    {searchResultsMsg(<<>>, FALSE, TRUE)}
    \cup {searchResultsMsg(r, FALSE, FALSE) : r \in SessionResults}
    \cup {searchResultsMsg(<<Viper>>, TRUE, FALSE)}

\* The orders a range over the selected map may take.
Orders(S) == {o \in [1..Cardinality(S) -> S] : \A i, j \in 1..Cardinality(S) : i # j => o[i] # o[j]}

\* tui.New
NewModel ==
    [viewState |-> ViewSearch, input |-> <<>>, pos |-> 0, packages |-> <<>>, cursor |-> 0, selected |-> {},
     message |-> "", messageType |-> "", searching |-> FALSE, searchDebounce |-> 0, lastQuery |-> <<>>,
     fromCache |-> FALSE, installing |-> FALSE, showHelp |-> FALSE, commands |-> <<>>,
     quitWithCommands |-> FALSE, commandsToPrint |-> <<>>, autoRun |-> FALSE,
     installProgress |-> 0, installMessage |-> "", width |-> 0, height |-> 0]

\* The indices of the order o the test of getSelectedPackages lets through.
RECURSIVE InOrder(_, _)
InOrder(o, mm) ==
    IF o = <<>> THEN <<>>
    ELSE (IF Head(o) \in mm.selected /\ Head(o) < Len(mm.packages) THEN <<Head(o)>> ELSE <<>>) \o InOrder(Tail(o), mm)

\* getSelectedPackages, the range taking the order o when o orders the map;
\* the one other map it is called on holds a single valid index.
getSelectedPackages(mm, o) ==
    LET valid == {idx \in mm.selected : idx < Len(mm.packages)}
        idxs == IF Cardinality(valid) <= 1 THEN [k \in 1..Cardinality(valid) |-> CHOOSE idx \in valid : TRUE]
                ELSE InOrder(o, mm)
    IN  [k \in 1..Len(idxs) |-> mm.packages[idxs[k] + 1]]

AddCallsFirst(packages, action) ==
    [k \in 1..(IF Len(packages) > 0 THEN 1 ELSE 0) |-> <<packages[k].name, packages[k].importPath, action>>]

\* The history Add calls a handler makes for the packages, in order.
AddCalls(packages, action) == [k \in 1..Len(packages) |-> <<packages[k].name, packages[k].importPath, action>>]

\* What a key handler gives back: the model, whether it returned tea.Quit,
\* and the history Add calls it made.
Handled(mm, quit, calls) == [m |-> mm, quit |-> quit, calls |-> calls]

AllSelected(mm) == IF Len(mm.packages) > 0 THEN mm.selected \cup (0..(Len(mm.packages) - 1)) ELSE mm.selected

searchEscKeepResults(mm) ==
    IF mm.input = <<>> THEN Handled(mm, TRUE, <<>>)
    ELSE Handled([mm EXCEPT !.input = <<>>, !.pos = 0, !.lastQuery = <<>>, !.message = "", !.cursor = 0], FALSE, <<>>)

\* handleSearchKeys, case tea.KeyEsc
searchEsc(mm) ==
    IF mm.input = <<>> THEN Handled(mm, TRUE, <<>>)
    ELSE Handled([mm EXCEPT !.input = <<>>, !.pos = 0, !.lastQuery = <<>>, !.packages = <<>>, !.message = "",
                            !.cursor = 0], FALSE, <<>>)

searchEnterNoAuto(mm, o) ==
    LET selected == getSelectedPackages(mm, o)
    IN  IF Len(selected) > 0
        THEN Handled([mm EXCEPT !.viewState = ViewOptions], FALSE, AddCalls(selected, ActionViewed))
        ELSE Handled(mm, FALSE, <<>>)

\* handleSearchKeys, case tea.KeyEnter, firstRun being false since New
searchEnter(mm, o) ==
    LET auto == IF Len(getSelectedPackages(mm, o)) = 0 /\ mm.cursor < Len(mm.packages)
                THEN [mm EXCEPT !.selected = @ \cup {mm.cursor}] ELSE mm
        selected == getSelectedPackages(auto, o)
    IN  IF Len(selected) > 0
        THEN Handled([auto EXCEPT !.viewState = ViewOptions], FALSE, AddCalls(selected, ActionViewed))
        ELSE Handled(auto, FALSE, <<>>)

\* handleSearchKeys
handleSearchKeys(mm, msg, o) ==
    CASE msg.type = "ctrl+c" -> Handled(mm, TRUE, <<>>)
      [] msg.type = "esc" -> searchEsc(mm)
      [] msg.type = "up" ->
           Handled(IF Len(mm.packages) > 0 /\ mm.cursor > 0 THEN [mm EXCEPT !.cursor = @ - 1] ELSE mm, FALSE, <<>>)
      [] msg.type = "down" ->
           Handled(IF Len(mm.packages) > 0 /\ mm.cursor < Len(mm.packages) - 1 THEN [mm EXCEPT !.cursor = @ + 1] ELSE mm,
                   FALSE, <<>>)
      [] msg.type = "tab" ->
           Handled(IF Len(mm.packages) > 0 /\ mm.cursor < Len(mm.packages)
                   THEN [mm EXCEPT !.selected = IF mm.cursor \in @ THEN @ \ {mm.cursor} ELSE @ \cup {mm.cursor}]
                   ELSE mm, FALSE, <<>>)
      [] msg.type = "enter" -> searchEnter(mm, o)
      [] msg.type = "ctrl+h" -> Handled([mm EXCEPT !.showHelp = ~@], FALSE, <<>>)
      [] msg.type = "ctrl+q" -> Handled(mm, TRUE, <<>>)
      [] msg.type = "ctrl+a" -> Handled([mm EXCEPT !.selected = AllSelected(mm)], FALSE, <<>>)
      [] msg.type = "ctrl+n" -> Handled([mm EXCEPT !.selected = {}], FALSE, <<>>)
      [] msg.type = "runes" ->
           CASE msg.runes = "Q" -> Handled(mm, TRUE, <<>>)
             [] msg.runes = "H" -> Handled([mm EXCEPT !.showHelp = ~@], FALSE, <<>>)
             [] msg.runes = "A" -> Handled([mm EXCEPT !.selected = AllSelected(mm)], FALSE, <<>>)
             [] msg.runes = "N" -> Handled([mm EXCEPT !.selected = {}], FALSE, <<>>)
             [] msg.runes = "C" ->
                  Handled([mm EXCEPT !.message = "Cache cleared successfully", !.messageType = "success"], FALSE, <<>>)
             [] OTHER -> Handled(mm, FALSE, <<>>)
      [] OTHER -> Handled([mm EXCEPT !.message = ""], FALSE, <<>>)

optionsGenerateAutoRun(mm, command) ==
    IF command # <<>>
    THEN Handled([mm EXCEPT !.quitWithCommands = TRUE, !.commandsToPrint = <<command>>, !.autoRun = TRUE], TRUE, <<>>)
    ELSE Handled([mm EXCEPT !.message = "All selected packages are already installed",
                            !.messageType = "info", !.viewState = ViewSearch], FALSE, <<>>)

\* handleOptionsKeys, case "g", "G"
optionsGenerate(mm, command) ==
    IF command # <<>>
    THEN Handled([mm EXCEPT !.quitWithCommands = TRUE, !.commandsToPrint = <<command>>, !.autoRun = FALSE], TRUE, <<>>)
    ELSE Handled([mm EXCEPT !.message = "All selected packages are already installed",
                            !.messageType = "info", !.viewState = ViewSearch], FALSE, <<>>)

\* The download key starting the installation inside the session.
optionsDownloadInApp(mm, command, selected) ==
    IF command # <<>>
    THEN Handled([mm EXCEPT !.viewState = ViewInstalling, !.installing = TRUE], FALSE, AddCalls(selected, ActionInstalled))
    ELSE Handled(mm, FALSE, <<>>)

\* handleOptionsKeys, case "d", "D"
optionsDownload(mm, command, selected) ==
    IF command # <<>>
    THEN Handled([mm EXCEPT !.quitWithCommands = TRUE, !.commandsToPrint = <<command>>, !.autoRun = TRUE],
                 TRUE, AddCalls(selected, ActionInstalled))
    ELSE Handled(mm, FALSE, <<>>)

\* handleOptionsKeys
handleOptionsKeys(mm, msg, o) ==
    LET selected == getSelectedPackages(mm, o)
        command == GetInstallCommand(selected)
    IN  CASE msg.type = "esc" -> Handled([mm EXCEPT !.viewState = ViewSearch], FALSE, <<>>)
          [] msg.type = "runes" /\ msg.runes \in {"g", "G"} -> optionsGenerate(mm, command)
          [] msg.type = "runes" /\ msg.runes \in {"d", "D"} -> optionsDownload(mm, command, selected)
          [] msg.type = "runes" /\ msg.runes \in {"c", "C"} -> Handled([mm EXCEPT !.viewState = ViewSearch], FALSE, <<>>)
          [] OTHER -> Handled(mm, FALSE, <<>>)

\* handleCommandsKeys
handleCommandsKeys(mm, msg) ==
    IF msg.type \in {"esc", "enter"} \/ (msg.type = "runes" /\ msg.runes \in {"q", "Q"})
    THEN Handled([mm EXCEPT !.viewState = ViewSearch, !.commands = <<>>], FALSE, <<>>)
    ELSE Handled(mm, FALSE, <<>>)

\* searchInput.Update: runes go in at the caret, backspace takes the rune
\* before it, ctrl+a moves the caret to the start of the line.
textinputUpdate(mm, msg) ==
    CASE msg.type = "runes" ->
           [mm EXCEPT !.input = SubSeq(@, 1, mm.pos) \o <<msg.runes>> \o SubSeq(@, mm.pos + 1, Len(@)), !.pos = @ + 1]
      [] msg.type = "backspace" /\ mm.pos > 0 ->
           [mm EXCEPT !.input = SubSeq(@, 1, mm.pos - 1) \o SubSeq(@, mm.pos + 1, Len(@)), !.pos = @ - 1]
      [] msg.type = "ctrl+a" -> [mm EXCEPT !.pos = 0]
      [] OTHER -> mm

\* time.Timer: armed until it fires or is stopped; a fired timer holds its
\* tick in the channel until a receiver takes it.
TimerStop(tms, t) == IF t # 0 /\ tms[t] = "armed" THEN [tms EXCEPT ![t] = "stopped"] ELSE tms

\* The command debounceSearch returns, before its goroutine has run.
NewCmd(query) == [pc |-> "new", query |-> query, timer |-> 0]

\* debounceSearch: the model, the timers and the commands after the call.
debounceSearch(mm, tms, cs) ==
    LET stopped == TimerStop(tms, mm.searchDebounce)
    IN  IF mm.input = <<>>
        THEN [m |-> [mm EXCEPT !.packages = <<>>, !.searching = FALSE], timers |-> stopped, cmds |-> cs]
        ELSE [m |-> [mm EXCEPT !.searching = TRUE, !.searchDebounce = Len(tms) + 1],
              timers |-> Append(stopped, "armed"), cmds |-> Append(cs, NewCmd(mm.input))]

\* handleSearchResults
\* handleSearchResults leaving the cursor where it is.
handleSearchResultsKeepCursor(mm, msg) ==
    IF msg.err THEN [mm EXCEPT !.searching = FALSE, !.message = "Search failed", !.messageType = "error"]
    ELSE [mm EXCEPT !.searching = FALSE, !.packages = msg.packages, !.fromCache = msg.fromCache,
                    !.selected = {},
                    !.message = IF Len(msg.packages) = 0 THEN "No packages found" ELSE "",
                    !.messageType = IF Len(msg.packages) = 0 THEN "info" ELSE @]

\* handleSearchResults taking the empty list of a failed search as its results.
handleSearchResultsApplyFailed(mm, msg) ==
    [mm EXCEPT !.searching = FALSE, !.packages = msg.packages, !.fromCache = msg.fromCache, !.cursor = 0,
               !.selected = {},
               !.message = IF msg.err THEN "Search failed" ELSE IF Len(msg.packages) = 0 THEN "No packages found" ELSE "",
               !.messageType = IF msg.err THEN "error" ELSE IF Len(msg.packages) = 0 THEN "info" ELSE @]

handleSearchResults(mm, msg) ==
    IF msg.err THEN [mm EXCEPT !.searching = FALSE, !.message = "Search failed", !.messageType = "error"]
    ELSE [mm EXCEPT !.searching = FALSE, !.packages = msg.packages, !.fromCache = msg.fromCache, !.cursor = 0,
                    !.selected = {},
                    !.message = IF Len(msg.packages) = 0 THEN "No packages found" ELSE "",
                    !.messageType = IF Len(msg.packages) = 0 THEN "info" ELSE @]

\* The history after the Add calls of a handler.
RECURSIVE AddAll(_, _)
AddAll(file, calls) ==
    IF calls = <<>> THEN file
    ELSE AddAll(Add(file, calls[1][1], calls[1][2], calls[1][3]).file, Tail(calls))

\* Update, lines 130-155: the key goes to the handler of the view.
KeyCase(mm, msg, o) ==
    CASE mm.viewState = ViewSearch -> handleSearchKeys(mm, msg, o)
      [] mm.viewState = ViewOptions -> handleOptionsKeys(mm, msg, o)
      [] mm.viewState = ViewCommands -> handleCommandsKeys(mm, msg)
      [] OTHER -> Handled(mm, FALSE, <<>>)

\* Update, lines 188-205: the search input takes the message, and a changed
\* value starts a debounce.
InputCase(mm, msg, tms, cs) ==
    LET typed == textinputUpdate(mm, msg)
    IN  IF mm.viewState = ViewSearch /\ ~mm.showHelp /\ ~mm.installing
        THEN (IF typed.input # mm.input
              THEN debounceSearch([typed EXCEPT !.lastQuery = typed.input], tms, cs)
              ELSE [m |-> typed, timers |-> tms, cmds |-> cs])
        ELSE [m |-> mm, timers |-> tms, cmds |-> cs]

NoKey == KeyMsg("none", "")

\* Update on a tea.KeyMsg: the model, the timers and the commands after
\* it, whether tea.Quit is among what it returns, and its history Add calls.
Update(mm, msg, o, tms, cs) ==
    IF mm.viewState = ViewSearch /\ mm.showHelp
    THEN [m |-> [mm EXCEPT !.showHelp = FALSE], timers |-> tms, cmds |-> cs, quit |-> FALSE, calls |-> <<>>]
    ELSE LET h == KeyCase(mm, msg, o)
             r == InputCase(h.m, msg, tms, cs)
         IN  [m |-> r.m, timers |-> r.timers, cmds |-> r.cmds, quit |-> h.quit, calls |-> h.calls]

\* The program handles a key; tea.Quit ends it.
UpdateKey(msg, o) ==
    /\ ~exited
    /\ LET u == Update(m, msg, o, timers, cmds)
       IN  /\ Len(u.m.input) <= MaxInput
           /\ Len(u.cmds) <= MaxCmds
           /\ m' = u.m
           /\ timers' = u.timers
           /\ cmds' = u.cmds
           /\ exited' = u.quit
           /\ hfile' = AddAll(hfile, u.calls)
    /\ UNCHANGED <<inbox, hnow, maxEntries, hret, streak, adds, cacheVars, concVars, cmd, fetchVars, pmVars, coord, hconcVars>>

\* Update on a searchResultsMsg.
UpdateSearchResults(x) ==
    /\ ~exited
    /\ x \in inbox
    /\ m' = InputCase(handleSearchResults(m, x.msg), NoKey, timers, cmds).m
    /\ inbox' = inbox \ {x}
    /\ UNCHANGED <<timers, cmds, exited, histVars, cacheVars, concVars, cmd, fetchVars, pmVars, coord, hconcVars>>

\* installProgressMsg: a step of an installation, or its end.
installProgressMsg(percent, message, done) == [percent |-> percent, message |-> message, done |-> done]

InstallMsgs == {installProgressMsg(50, "Installing", FALSE), installProgressMsg(100, "Done", TRUE)}

onInstallProgressKeepSelected(mm, ic, msg) ==
    LET progress == [mm EXCEPT !.installProgress = msg.percent, !.installMessage = msg.message]
        marked == MarkInstalledPackages(ic, mm.packages)
    IN  IF msg.done
        THEN [m |-> [progress EXCEPT !.viewState = ViewSearch, !.installing = FALSE,
                                     !.message = "Installation completed successfully!", !.messageType = "success",
                                     !.packages = marked.packages],
              ic |-> marked.ic]
        ELSE [m |-> progress, ic |-> ic]

\* Update, case installProgressMsg, with the map ic of the package manager:
\* the model and the map after it.
onInstallProgress(mm, ic, msg) ==
    LET progress == [mm EXCEPT !.installProgress = msg.percent, !.installMessage = msg.message]
        marked == MarkInstalledPackages(ic, mm.packages)
    IN  IF msg.done
        THEN [m |-> [progress EXCEPT !.viewState = ViewSearch, !.installing = FALSE,
                                     !.message = "Installation completed successfully!", !.messageType = "success",
                                     !.selected = {}, !.packages = marked.packages],
              ic |-> marked.ic]
        ELSE [m |-> progress, ic |-> ic]

\* Update, case installErrorMsg
\* Update, case tea.WindowSizeMsg
onWindowSize(mm, size) == [mm EXCEPT !.width = size[1], !.height = size[2]]

onInstallError(mm) ==
    [mm EXCEPT !.viewState = ViewSearch, !.installing = FALSE, !.message = "Installation failed", !.messageType = "error"]

\* Update on an installProgressMsg.
UpdateInstallProgress(msg) ==
    /\ ~exited
    /\ LET r == onInstallProgress(m, installedCache, msg)
       IN  /\ m' = InputCase(r.m, NoKey, timers, cmds).m
           /\ installedCache' = r.ic
    /\ UNCHANGED <<probe, run, timers, cmds, inbox, exited, histVars, cacheVars, concVars, cmd, fetchVars, goMod, inst, coord, hconcVars>>

\* Update on an installErrorMsg.
UpdateInstallError ==
    /\ ~exited
    /\ m' = InputCase(onInstallError(m), NoKey, timers, cmds).m
    /\ UNCHANGED <<timers, cmds, inbox, exited, histVars, cacheVars, concVars, cmd, fetchVars, pmVars, coord, hconcVars>>

\* The goroutine of a debounce command reaches its receive and reads
\* m.searchDebounce, the field Update writes, for the channel to wait on.
CmdStart(i) ==
    /\ ~exited
    /\ cmds[i].pc = "new"
    /\ cmds' = [cmds EXCEPT ![i].pc = "waiting", ![i].timer = m.searchDebounce]
    /\ UNCHANGED <<m, timers, inbox, exited, histVars, cacheVars, concVars, cmd, fetchVars, pmVars, coord, hconcVars>>

\* A timer's duration passes before it was stopped.
TimerFire(t) ==
    /\ ~exited
    /\ timers[t] = "armed"
    /\ timers' = [timers EXCEPT ![t] = "fired"]
    /\ UNCHANGED <<m, cmds, inbox, exited, histVars, cacheVars, concVars, cmd, fetchVars, pmVars, coord, hconcVars>>

\* The receive of a command takes the tick of the timer it waits on.
CmdReceive(i) ==
    /\ ~exited
    /\ cmds[i].pc = "waiting"
    /\ timers[cmds[i].timer] = "fired"
    /\ timers' = [timers EXCEPT ![cmds[i].timer] = "drained"]
    /\ cmds' = [cmds EXCEPT ![i].pc = "searching"]
    /\ UNCHANGED <<m, inbox, exited, histVars, cacheVars, concVars, cmd, fetchVars, pmVars, coord, hconcVars>>

\* performSearch of a command returns its message.
CmdSearch(i, out) ==
    /\ ~exited
    /\ cmds[i].pc = "searching"
    /\ cmds' = [cmds EXCEPT ![i].pc = "done"]
    /\ inbox' = inbox \cup {[cmd |-> i, msg |-> out]}
    /\ UNCHANGED <<m, timers, exited, histVars, cacheVars, concVars, cmd, fetchVars, pmVars, coord, hconcVars>>

SessionNext ==
    \/ \E msg \in Keys, o \in Orders(m.selected) : UpdateKey(msg, o)
    \/ \E x \in inbox : UpdateSearchResults(x)
    \/ \E i \in 1..Len(cmds) : CmdStart(i)
    \/ \E t \in 1..Len(timers) : TimerFire(t)
    \/ \E i \in 1..Len(cmds) : CmdReceive(i)
    \/ \E i \in 1..Len(cmds), out \in SessionOutcomes : CmdSearch(i, out)

\* The session with the model mm and no command returned yet.
TuiInitAt(mm) ==
    /\ m = mm
    /\ timers = <<>>
    /\ cmds = <<>>
    /\ inbox = {}
    /\ exited = FALSE

\* tui.New, and the program not yet started.
TuiInit ==
    /\ m = NewModel
    /\ timers = <<>>
    /\ cmds = <<>>
    /\ inbox = {}
    /\ exited = FALSE

(***************************************************************************)
(* Specifications.  A component that takes no part in a specification      *)
(* stays as it was constructed.                                            *)
(***************************************************************************)
InitCache ==
    \E days \in 0..MaxTTL :
        CacheInit(days) /\ HistoryInit(1) /\ CmdInit(<<>>) /\ FetchInit("", 3) /\ PmInit({}) /\ CoordInit("") /\ HistConcInit(NoArgs, NoArgs) /\ TuiInit

InitCacheConc ==
    \E days \in 0..MaxTTL :
        \E fs \in {EmptyFs,
                   FsRename(FsWriteFile(EmptyFs, TempPath(getFilename(ConcQuery)), MarshalIndent(EarlierRecord)).fs,
                            TempPath(getFilename(ConcQuery)), getFilename(ConcQuery), {}).fs} :
            ConcInit(days, fs) /\ HistoryInit(1) /\ CmdInit(<<>>) /\ FetchInit("", 3) /\ PmInit({}) /\ CoordInit("") /\ HistConcInit(NoArgs, NoArgs) /\ TuiInit

InitHistory ==
    \E max \in 1..MaxHistory :
        HistoryInit(max) /\ CacheInit(0) /\ CmdInit(<<>>) /\ FetchInit("", 3) /\ PmInit({}) /\ CoordInit("") /\ HistConcInit(NoArgs, NoArgs) /\ TuiInit

\* A log large enough to keep every entry added.
InitHistSearch ==
    \E max \in {MaxAdds} :
        HistoryInit(max) /\ CacheInit(0) /\ CmdInit(<<>>) /\ FetchInit("", 3) /\ PmInit({}) /\ CoordInit("") /\ HistConcInit(NoArgs, NoArgs) /\ TuiInit

\* A log of the default size (config.DefaultConfig).
InitHistoryWindow ==
    \E max \in {1000} :
        HistoryInit(max) /\ CacheInit(0) /\ CmdInit(<<>>) /\ FetchInit("", 3) /\ PmInit({}) /\ CoordInit("") /\ HistConcInit(NoArgs, NoArgs) /\ TuiInit

\* Two goroutines about to call Add on an empty log.
InitHistoryConc ==
    \E max \in 1..MaxHistory, args1 \in AddArgs, args2 \in AddArgs :
        /\ HistoryInit(max) /\ CacheInit(0) /\ CmdInit(<<>>) /\ FetchInit("", 3) /\ PmInit({}) /\ CoordInit("")
        /\ HistConcInit(args1, args2) /\ TuiInit

InitCommand ==
    \E ps \in SeqsUpTo(Selectable, MaxSelected) :
        CmdInit(ps) /\ CacheInit(0) /\ HistoryInit(1) /\ FetchInit("", 3) /\ PmInit({}) /\ CoordInit("") /\ HistConcInit(NoArgs, NoArgs) /\ TuiInit

InitFetch ==
    \E q \in {"", "cobra viper"}, n \in 0..RetryLimit :
        FetchInit(q, n) /\ CacheInit(0) /\ HistoryInit(1) /\ CmdInit(<<>>) /\ PmInit({}) /\ CoordInit("") /\ HistConcInit(NoArgs, NoArgs) /\ TuiInit

\* The cache directory holding the record of an earlier run.
EarlierFs ==
    FsRename(FsWriteFile(EmptyFs, TempPath(getFilename(ConcQuery)), MarshalIndent(EarlierRecord)).fs,
             TempPath(getFilename(ConcQuery)), getFilename(ConcQuery), {}).fs

\* The cache as an earlier run may have left it for the query searched.
InitCoord ==
    \E days \in 0..MaxTTL, q \in {ConcQuery}, mods \in {{}, {Viper.importPath}} :
        \E fs \in {EmptyFs, EarlierFs} :
            /\ ConcInit(days, fs)
            /\ HistoryInit(1) /\ CmdInit(<<>>) /\ FetchInit("", 3) /\ PmInit(mods) /\ CoordInit(q) /\ HistConcInit(NoArgs, NoArgs) /\ TuiInit

SpecCache == InitCache /\ [][CacheNext]_vars

SpecCacheConc == InitCacheConc /\ [][ConcNext]_vars

SpecHistory == InitHistory /\ [][HistoryNext]_vars

SpecHistSearch == InitHistSearch /\ [][HistSearchNext]_vars

SpecCommand == InitCommand /\ [][CmdNext]_vars

SpecFetch == InitFetch /\ [][FetchNext]_vars

SpecCoord == InitCoord /\ [][CoordNext]_vars

SpecHistoryWindow == InitHistoryWindow /\ [][WindowNext]_vars

SpecHistoryConc == InitHistoryConc /\ [][HistConcNext]_vars

\* main: the session starts on an empty history with the default limit.
InitSession ==
    \E max \in {1000} :
        /\ HistoryInit(max) /\ CacheInit(0) /\ CmdInit(<<>>) /\ FetchInit("", 3) /\ PmInit({}) /\ CoordInit("")
        /\ HistConcInit(NoArgs, NoArgs) /\ TuiInit

SpecSession == InitSession /\ [][SessionNext]_vars

\* A key reaches Update.
KeyStep == \E msg \in Keys, o \in Orders(m.selected) : UpdateKey(msg, o)

\* The runtime runs every command it was handed, armed timers fire, a value
\* in a timer's channel is received by a command that waits for it, a search
\* returns, and Update is given every message; keys come as the user likes.
SessionFairness ==
    /\ \A i \in 1..MaxCmds : WF_vars(i <= Len(cmds) /\ CmdStart(i))
    /\ \A t \in 1..MaxCmds : WF_vars(t <= Len(timers) /\ TimerFire(t))
    /\ \A i \in 1..MaxCmds : WF_vars(i <= Len(cmds) /\ CmdReceive(i))
    /\ \A i \in 1..MaxCmds : WF_vars(i <= Len(cmds) /\ \E out \in SessionOutcomes : CmdSearch(i, out))
    /\ WF_vars(\E x \in inbox : UpdateSearchResults(x))

SpecSessionLive == InitSession /\ [][SessionNext]_vars /\ SessionFairness

\* packages.New, the module cache holding any of the paths, before any call.
InitPmConc ==
    \E mods \in SUBSET PmPaths :
        /\ HistoryInit(1) /\ CacheInit(0) /\ CmdInit(<<>>) /\ FetchInit("", 3) /\ PmInit(mods) /\ CoordInit("")
        /\ HistConcInit(NoArgs, NoArgs) /\ TuiInit

SpecPmConc == InitPmConc /\ [][PmConcNext]_vars

\* The lines a subprocess may write.
OutLines == {"get m", "added m v1"}

ErrLines == {"go: downloading m v1", "go: module m not found"}

\* InstallPackage on a path, the subprocess writing up to two lines each to
\* standard output and standard error.
InitPkg ==
    \E stdout \in SeqsUpTo(OutLines, MaxLines), stderr \in SeqsUpTo(ErrLines, MaxLines) :
        /\ HistoryInit(1) /\ CacheInit(0) /\ CmdInit(<<>>) /\ FetchInit("", 3) /\ CoordInit("")
        /\ HistConcInit(NoArgs, NoArgs) /\ TuiInit
        /\ goMod = {} /\ installedCache = <<>> /\ inst = IdleInstall(<<>>) /\ probe = IdleProbe
        /\ run = IdleRun(Cobra.importPath, stdout, stderr)

SpecPkg == InitPkg /\ [][PkgNext]_vars

\* InstallPackages on up to three packages of the pool, marked or not.
InitInstall ==
    \E ps \in SeqsUpTo(Selectable, MaxSelected) :
        /\ HistoryInit(1) /\ CacheInit(0) /\ CmdInit(<<>>) /\ FetchInit("", 3) /\ PmInitWith({}, ps) /\ CoordInit("")
        /\ HistConcInit(NoArgs, NoArgs) /\ TuiInit
        /\ \A a, b \in 1..Len(ps) : a # b => ps[a].importPath # ps[b].importPath

SpecInstall == InitInstall /\ [][InstallNext]_vars

\* packages.New, the module cache holding any of the paths.
InitPm ==
    \E mods \in SUBSET PmPaths :
        /\ HistoryInit(1) /\ CacheInit(0) /\ CmdInit(<<>>) /\ FetchInit("", 3) /\ PmInit(mods) /\ CoordInit("")
        /\ HistConcInit(NoArgs, NoArgs) /\ TuiInit

SpecPm == InitPm /\ [][PmNext]_vars

\* The models of a session showing the Installing view.
InstallingModels ==
    {[NewModel EXCEPT !.viewState = ViewInstalling, !.installing = TRUE, !.input = i, !.pos = Len(i), !.lastQuery = i,
                      !.packages = p, !.selected = s, !.cursor = c, !.message = msg] :
        i \in {<<>>, <<"g">>}, p \in {<<Cobra>>, <<Cobra, Viper>>}, s \in SUBSET {0, 1}, c \in {0, 1},
        msg \in {"", "No packages found"}}

\* A key pressed while the view is Installing.
InstallingKey(msg, o) ==
    /\ m.viewState = ViewInstalling
    /\ UpdateKey(msg, o)

\* Update given keys in the Installing view, and install messages.
InstallingNext ==
    \/ \E msg \in Keys, o \in Orders(m.selected) : InstallingKey(msg, o)
    \/ \E msg \in InstallMsgs : UpdateInstallProgress(msg)
    \/ UpdateInstallError

InitInstalling ==
    \E mm \in InstallingModels, mods \in {{}, {Cobra.importPath}} :
        /\ HistoryInit(1000) /\ CacheInit(0) /\ CmdInit(<<>>) /\ FetchInit("", 3) /\ PmInit(mods) /\ CoordInit("")
        /\ HistConcInit(NoArgs, NoArgs) /\ TuiInitAt(mm)
        /\ mm.cursor < Len(mm.packages)
        /\ \A idx \in mm.selected : idx < Len(mm.packages)

SpecInstalling == InitInstalling /\ [][InstallingNext]_vars

(***************************************************************************)
(* Properties of the cache, one call at a time (SpecCache)                 *)
(***************************************************************************)
\* The record at a query's target path, as a reader would decode it.
StoredEntry(fs, q) == Unmarshal(FsReadFile(fs, getFilename(q)).data)

Age(fs, q) == cnow - StoredEntry(fs, q).entry.timestamp

\* C1: a Get(Q) that directly follows Set(Q, R), less than the TTL later,
\* finds an entry whose query is Q and whose results are R, in order.
CacheRoundTrip ==
    [][\A q \in Queries :
          (CacheGet(q) /\ lastSet[q] # NoEntry /\ cnow - lastSet[q].timestamp < ttlDays * DayTicks)
          => (cret'.found /\ cret'.entry.query = q /\ cret'.entry.results = lastSet[q].results)]_vars

CacheRoundTripWitness ==
    /\ cret.op = "Get"
    /\ cret.found
    /\ cret.entry.results = <<Cobra, Viper>>
    /\ cnow > cret.entry.timestamp

\* C2: a Get on a stored entry older than the TTL reports not-found and
\* removes the record; a found entry is never older than the TTL; and a
\* Get repeated at once reports not-found again and changes nothing.
CacheExpiry ==
    [][\A q \in Queries :
          CacheGet(q) =>
             /\ (q \in Stored(cfs) /\ Age(cfs, q) > ttlDays * DayTicks)
                   => (~cret'.found /\ q \notin Stored(cfs') /\ ~cret'.err
                       /\ ~Get(cfs', q).found /\ Get(cfs', q).fs = cfs')
             /\ cret'.found => (q \in Stored(cfs) /\ Age(cfs, q) <= ttlDays * DayTicks)]_vars

CacheExpiryWitness ==
    /\ cret.op = "Get"
    /\ cret.query \in cret.had
    /\ ~cret.found
    /\ cret.query \notin Stored(cfs)

\* C3: CleanExpired removes every record older than the TTL, keeps every
\* record younger than the TTL as it was, whatever the order of the
\* listing, and reports an error only when the directory cannot be read.
CleanExpiredExact ==
    [][CacheCleanExpired =>
          /\ \A q \in Stored(cfs) :
                /\ Age(cfs, q) > ttlDays * DayTicks => q \notin Stored(cfs')
                /\ Age(cfs, q) < ttlDays * DayTicks
                      => (q \in Stored(cfs') /\ StoredEntry(cfs', q) = StoredEntry(cfs, q))
          /\ Stored(cfs') \subseteq Stored(cfs)
          /\ cret'.err => ~cfs.exists]_vars

CleanExpiredExactWitness ==
    /\ cret.op = "CleanExpired"
    /\ ~cret.err
    /\ \E q1, q2 \in cret.had : q1 \notin Stored(cfs) /\ q2 \in Stored(cfs)

(***************************************************************************)
(* Properties of the cache under concurrent callers (SpecCacheConc)        *)
(***************************************************************************)
\* The entries that have been handed to the directory: the earlier run's
\* record and the entry of every Set call begun.
WrittenEntries == {EarlierRecord} \cup {writer[w].entry : w \in {x \in Writers : writer[x].pc # "idle"}}

\* C4: with Set calls and a Get running concurrently on one query, what is
\* at the target path is absent or a complete entry some caller wrote, and
\* the Get never reads a record it cannot decode.
NoPartialRecordVisible ==
    LET rd == FsReadFile(cfs, getFilename(ConcQuery))
    IN  /\ rd.err \/ (Unmarshal(rd.data).ok /\ Unmarshal(rd.data).entry \in WrittenEntries)
        /\ reader.outcome # "undecodable"

\* C5: once every concurrent Set call on the query has returned, a Get
\* finds a complete entry, and it is the entry of one of the Set calls.
LastWriterWins ==
    ((\A w \in Writers : writer[w].pc = "done") /\ reader = IdleReader)
    => LET g == Get(cfs, ConcQuery)
       IN  g.found /\ \E w \in Writers : g.entry = writer[w].entry

\* C39: when one Set call on the query has returned without error, no other
\* Set call has started, and the concurrent Get has returned, the record
\* written is there: a Get finds it and returns the entry of the Set call.
FreshRecordSurvivesExpiry ==
    \A w \in Writers :
       (/\ writer[w].pc = "done" /\ ~writer[w].err
        /\ \A v \in Writers \ {w} : writer[v].pc = "idle"
        /\ reader.pc = "idle")
       => LET g == Get(cfs, ConcQuery)
          IN  g.found /\ g.entry = writer[w].entry

(***************************************************************************)
(* Properties of the history log (SpecHistory)                             *)
(***************************************************************************)
Matching(file, args) ==
    {i \in 1..Len(file) : <<file[i].package, file[i].import_path, file[i].action>> = args}

\* C6: in a run of identical Add calls within one hour of the first, which
\* stored its entry, every later call returns no error and leaves the log
\* as the first call left it, with exactly one entry of theirs; and an Add
\* that follows Clear stores a new entry.
AddDeduplicates ==
    /\ (streak.n >= 2 /\ streak.firstStored /\ streak.lastAt - streak.firstAt < HourTicks)
          => /\ ~hret.err
             /\ ~hret.stored
             /\ hfile = streak.after
             /\ Cardinality({i \in Matching(hfile, streak.args) : hfile[i].timestamp >= streak.firstAt}) = 1
    /\ (hret.op = "Add" /\ hret.afterClear)
          => (hret.stored /\ hfile = <<MarshalEntry(Entry(hret.at, hret.args[1], hret.args[2], hret.args[3]))>>)

AddDeduplicatesWitness ==
    /\ streak.n = 3
    /\ streak.firstStored
    /\ streak.lastAt - streak.firstAt < HourTicks
    /\ streak.lastAt > streak.firstAt
    /\ Len(hfile) = 1

\* C7: the log holds the last maxEntries entries Add stored, oldest first,
\* and never more than maxEntries.
HistoryKeepsLastN ==
    /\ Len(hfile) <= maxEntries
    /\ readEntries(hfile) = SubSeq(adds, IF Len(adds) > maxEntries THEN Len(adds) - maxEntries + 1 ELSE 1, Len(adds))

HistoryKeepsLastNWitness ==
    /\ maxEntries = 2
    /\ Len(adds) > maxEntries
    /\ Len(hfile) = maxEntries
    /\ hfile[1].package # hfile[2].package

(***************************************************************************)
(* Properties of GetInstallCommand (SpecCommand)                           *)
(***************************************************************************)
\* C8: the command is empty when every package is installed or none is
\* given; otherwise it is "go get" followed by exactly the packages not
\* installed, in input order, each as importPath@version when it has a
\* version and as importPath when it has none.
InstallCommandExact ==
    cmd.pc = "done" =>
       LET need == SelectSeq(cmd.packages, LAMBDA p : ~p.isInstalled)
       IN  IF need = <<>> THEN cmd.command = <<>>
           ELSE /\ Len(cmd.command) = Len(need) + 2
                /\ cmd.command[1] = <<"go">>
                /\ cmd.command[2] = <<"get">>
                /\ \A i \in 1..Len(need) :
                      cmd.command[i + 2] = IF need[i].version = "" THEN <<need[i].importPath>>
                                           ELSE <<need[i].importPath, "@", need[i].version>>

InstallCommandExactWitness ==
    /\ cmd.pc = "done"
    /\ Len(cmd.packages) = 3
    /\ cmd.packages[2].isInstalled
    /\ cmd.command = <<<<"go">>, <<"get">>, <<Cobra.importPath>>, <<Gin.importPath, "@", Gin.version>>>>

(***************************************************************************)
(* Properties of Scraper.Search (SpecFetch)                                *)
(***************************************************************************)
Responded == net.responses

FirstOk == Min({k \in 1..Len(Responded) : Responded[k].kind = "ok"})

\* C9: no request follows a successful one, and a Search whose first
\* successful attempt is the k-th returns after exactly k requests with
\* that page's parsed results and no error.
SearchStopsAtFirstSuccess ==
    /\ \A k \in 1..Len(Responded) : Responded[k].kind = "ok" => k = Len(Responded)
    /\ (search.pc = "done" /\ \E k \in 1..Len(Responded) : Responded[k].kind = "ok")
          => /\ FirstOk <= maxRetries
             /\ Len(Responded) = FirstOk
             /\ ~search.err
             /\ search.results = parseResults(Responded[FirstOk].doc)

SearchStopsAtFirstSuccessWitness ==
    /\ search.pc = "done"
    /\ maxRetries = 3
    /\ Len(Responded) = 3
    /\ Responded[1].kind = "status 500"
    /\ Responded[2].kind = "status 500"
    /\ Responded[3] = Response("ok", DocRetryTest)
    /\ Len(search.results) = 1

\* C10: Search never makes more than maxRetries requests and never stops
\* short of returning; when every attempt fails it has made exactly
\* maxRetries requests and returns an error with no results.
SearchBounded ==
    /\ Len(Responded) <= maxRetries
    /\ search.pc # "done" => ENABLED FetchNext
    /\ (search.pc = "done" /\ search.query # "" /\ \A k \in 1..Len(Responded) : Responded[k].kind # "ok")
          => (Len(Responded) = maxRetries /\ search.err /\ search.results = <<>>)

SearchBoundedWitness ==
    /\ search.pc = "done"
    /\ search.err
    /\ maxRetries = 3
    /\ Len(Responded) = 3
    /\ Responded[1].kind = "transport error"
    /\ Responded[2].kind = "status 500"
    /\ Responded[3].kind = "unparsable"

\* The seconds slept in all.
RECURSIVE SumSeq(_)
SumSeq(s) == IF s = <<>> THEN 0 ELSE Head(s) + SumSeq(Tail(s))

\* C28: attempt 0 is made without a sleep before it; attempt k >= 1 is made
\* right after the k-th sleep, of 2^(k-1) seconds, so after 2^k - 1 seconds
\* of sleep in all; no sleep follows the last attempt.
BackoffSchedule ==
    /\ \A j \in 1..Len(net.slept) : net.slept[j] = 2 ^ (j - 1)
    /\ search.pc = "get"
          => /\ Len(net.responses) = search.attempt
             /\ Len(net.slept) = search.attempt
             /\ SumSeq(net.slept) = 2 ^ search.attempt - 1
    /\ search.pc # "get"
          => Len(net.slept) = IF net.responses = <<>> THEN 0 ELSE Len(net.responses) - 1

BackoffScheduleWitness ==
    /\ search.pc = "done"
    /\ maxRetries = 3
    /\ Len(net.responses) = 3
    /\ net.slept = <<1, 2>>
    /\ search.err

\* C11: Search of the empty query makes no request and does not sleep, and
\* returns an empty result sequence and no error.
EmptyQueryNoRequest ==
    search.query = ""
       => /\ net.responses = <<>>
          /\ net.slept = <<>>
          /\ search.pc \in {"entry", "done"}
          /\ search.pc = "done" => (search.results = <<>> /\ ~search.err)

EmptyQueryNoRequestWitness ==
    /\ search.query = ""
    /\ search.pc = "done"
    /\ maxRetries = 3

(***************************************************************************)
(* Properties of performSearch (SpecCoord)                                 *)
(***************************************************************************)
\* The packages without their installed marks.
Unmarked(packages) == [i \in 1..Len(packages) |-> [packages[i] EXCEPT !.isInstalled = FALSE]]

\* C12: a search whose first lookup missed and whose fetch failed answers
\* with the results of the record the cache held for the query, expired or
\* not, and with the error only when the cache held none.
FallbackServesPrior ==
    (coord.pc = "done" /\ coord.missed /\ coord.err /\ coord.prior # NoEntry)
       => /\ ~coord.msg.err
          /\ Unmarked(coord.msg.packages) = Unmarked(coord.prior.results)

\* The record the cache directory holds for the query, NoEntry if none.
RecordOf(fs, query) ==
    LET rd == FsReadFile(fs, getFilename(query))
        um == Unmarshal(rd.data)
    IN  IF ~rd.err /\ um.ok THEN um.entry ELSE NoEntry

\* C30: a search whose lookup hits answers in that step with the cached
\* results marked with their install status, flagged as from the cache,
\* without fetching and without changing the cache; a search that missed and
\* fetched successfully answers with the marked results only in the step
\* that has written them to the cache under its query; after a failed fetch
\* no step of the search writes a record.
SearchCachesWhatItFetched ==
    [][coord' # coord
         => /\ (coord.pc = "lookup" /\ Get(cfs, coord.query).found)
                 => /\ coord'.pc = "done" /\ ~coord'.missed
                    /\ cfs' = cfs
                    /\ coord'.msg = searchResultsMsg(
                           MarkInstalledPackages(installedCache, Get(cfs, coord.query).entry.results).packages,
                           TRUE, FALSE)
            /\ (coord.pc = "store" /\ ~coord.err)
                 => /\ coord'.pc = "done"
                    /\ coord'.msg = searchResultsMsg(
                           MarkInstalledPackages(installedCache, coord.packages).packages, FALSE, FALSE)
                    /\ RecordOf(cfs', coord.query).query = coord.query
                    /\ RecordOf(cfs', coord.query).results = coord'.msg.packages
            /\ (coord.pc \in {"fallback", "store"} /\ coord.err)
                 => RecordOf(cfs', coord.query) \in {RecordOf(cfs, coord.query), NoEntry}
            /\ (coord'.pc = "done" /\ ~coord'.msg.err /\ ~coord'.msg.fromCache /\ ~coord'.err)
                 => coord.pc = "store"]_vars

\* A search that missed has fetched, stored and answered with results of
\* which one is marked installed.
SearchCachesWhatItFetchedWitness ==
    /\ coord.pc = "done" /\ coord.missed /\ ~coord.err
    /\ \E i \in 1..Len(coord.msg.packages) : coord.msg.packages[i].isInstalled
    /\ RecordOf(cfs, coord.query).results = coord.msg.packages

(***************************************************************************)
(* Properties of History.Search (SpecHistSearch)                           *)
(***************************************************************************)
\* sub occurs in s as a run of consecutive bytes, compared byte by byte.
IsSubstring(s, sub) == \E i \in 0..(Len(s) - Len(sub)) : SubSeq(s, i + 1, i + Len(sub)) = sub

\* C32: after Search(s), for any s, the matches returned are the stored
\* entries whose package name or import path has s as a substring, in the
\* order of the log, and the log is the one s was searched in.
SearchReturnsSubstringMatches ==
    hret.op = "Search"
       => hret.matches = SelectSeq(readEntries(hfile),
                                   LAMBDA e : \/ IsSubstring(Bytes(e.Package), Bytes(hret.args))
                                              \/ IsSubstring(Bytes(e.ImportPath), Bytes(hret.args)))

(***************************************************************************)
(* Properties of IsInstalled next to invalidations (SpecPmConc)            *)
(***************************************************************************)
\* C40: while no InstallPackage call is in progress, no path has a memo that
\* was stored from a value probed before the last invalidation of the path.
MemoProbedAfterInvalidation ==
    probe.ipc = "idle" => \A p \in DOMAIN installedCache : p \notin probe.stale

(***************************************************************************)
(* Properties of InstallPackage (SpecPkg)                                  *)
(***************************************************************************)
\* The lines handed to the callback by the goroutines, in order.
Forwarded(lines) == SelectSeq([i \in 1..Len(run.calls) |-> run.calls[i].line], LAMBDA l : l \in lines)

\* C33: when InstallPackage has returned, every line the subprocess wrote to
\* standard output and every line of standard error that holds the marker
\* has been handed to the callback, no other line of standard error has, no
\* callback is made after the return, and an error returned holds every line
\* the subprocess wrote to standard error.
OutputForwardedBeforeReturn ==
    run.pc = "returned"
       => /\ Forwarded(OutLines) = run.stdout
          /\ Forwarded(ErrLines) = SelectSeq(run.stderr, Downloading)
          /\ \A i \in 1..Len(run.calls) : ~run.calls[i].late
          /\ run.heldOut = <<>> /\ run.heldErr = <<>>
          /\ run.ret.err => run.ret.text = run.stderr

(***************************************************************************)
(* Properties of a long run of Add calls (SpecHistoryWindow)               *)
(***************************************************************************)
\* C16: the log never holds two entries with the same package, import path
\* and action whose timestamps are less than one hour apart.
NoDuplicateWithinHour ==
    \A i, j \in 1..Len(hfile) :
       (i < j /\ hfile[i].package = hfile[j].package /\ hfile[i].import_path = hfile[j].import_path
              /\ hfile[i].action = hfile[j].action)
          => hfile[j].timestamp - hfile[i].timestamp >= HourTicks

(***************************************************************************)
(* Properties of concurrent Add calls (SpecHistoryConc)                    *)
(***************************************************************************)
InCritical(c) == hcall[c].pc \in {"locked", "read", "write", "unlock"}

\* C18: at most one Add is between Lock and Unlock at a time, and once
\* concurrent Adds of packages with distinct (name, path), no more of them
\* than the log may hold, have all returned, the log holds an entry for
\* each of them.
AddsSerialized ==
    /\ \A c, d \in Callers : (InCritical(c) /\ InCritical(d)) => c = d
    /\ ((\A c \in Callers : hcall[c].pc = "done")
        /\ (\A c, d \in Callers : c # d => <<hcall[c].args[1], hcall[c].args[2]>> # <<hcall[d].args[1], hcall[d].args[2]>>)
        /\ Cardinality(Callers) <= maxEntries)
          => \A c \in Callers : Matching(hfile, hcall[c].args) # {}

AddsSerializedWitness ==
    /\ \A c \in Callers : hcall[c].pc = "done"
    /\ hcall["a1"].args[2] # hcall["a2"].args[2]
    /\ maxEntries = 2
    /\ Len(hfile) = 2

(***************************************************************************)
(* Properties of the session (SpecSession)                                 *)
(***************************************************************************)
\* The indices the selected map holds true for that getSelectedPackages takes.
ValidSelected(mm) == {idx \in mm.selected : idx < Len(mm.packages)}

\* The entries of the log with the action 'installed'.
InstalledEntries(file) == {i \in 1..Len(file) : file[i].action = ActionInstalled}

SelectedIndicesValid ==
    [][/\ \A idx \in m'.selected : idx < Len(m'.packages)
       /\ m'.packages # m.packages => m'.selected = {}]_vars

\* C15: the message of a command changes the result list only if no
\* debounce was scheduled after the command and the query of the command is
\* still the query of the session.
Superseded(i) == i # Len(cmds) \/ cmds[i].query # m.lastQuery

StaleResultsDiscarded ==
    [][\A x \in inbox \ inbox' : Superseded(x.cmd) => m'.packages = m.packages]_vars

\* C17: what a command does is fixed when Update returns it: the channel it
\* waits on is the channel of the timer made with it, whatever Update has
\* written to the session since.
CommandsKeepOffSession ==
    \A i \in 1..Len(cmds) : cmds[i].pc = "waiting" => cmds[i].timer = i

\* The keys that ask the program to quit.
QuitKeys == {KeyMsg("ctrl+c", ""), KeyMsg("ctrl+q", ""), KeyMsg("runes", "Q")}

\* C19: in every view of a running session, the help overlay included, a
\* quit key given to Update ends the program.
QuitKeyExits ==
    ~exited => \A msg \in QuitKeys, o \in Orders(m.selected) : Update(m, msg, o, timers, cmds).quit

\* C20: in Options the download key given to Update always ends the
\* program with one command to print, marked for auto-run, and an
\* 'installed' Add for each selected package.
DownloadAlwaysExits ==
    (~exited /\ m.viewState = ViewOptions)
       => \A o \in Orders(m.selected) :
             LET u == Update(m, KeyMsg("runes", "d"), o, timers, cmds)
             IN  /\ u.quit
                 /\ u.m.quitWithCommands
                 /\ u.m.autoRun
                 /\ Len(u.m.commandsToPrint) = 1
                 /\ u.calls = AddCalls(getSelectedPackages(m, o), ActionInstalled)

\* C21: in Options the generate-command key given to Update builds the
\* install command of the selected packages; if there is one the program
\* ends with exactly that command to print and auto-run off, and if every
\* selected package is installed the session goes to Search with an info
\* message, does not end and has nothing to print.
GenerateCommandKey ==
    (~exited /\ m.viewState = ViewOptions)
       => \A o \in Orders(m.selected) :
             LET u == Update(m, KeyMsg("runes", "g"), o, timers, cmds)
                 selected == getSelectedPackages(m, o)
             IN  IF \E k \in 1..Len(selected) : ~selected[k].isInstalled
                 THEN /\ u.quit
                      /\ u.m.quitWithCommands
                      /\ u.m.commandsToPrint = <<GetInstallCommand(selected)>>
                      /\ GetInstallCommand(selected) # <<>>
                      /\ ~u.m.autoRun
                 ELSE /\ ~u.quit
                      /\ u.m.viewState = ViewSearch
                      /\ u.m.message = "All selected packages are already installed"
                      /\ u.m.messageType = "info"
                      /\ ~u.m.quitWithCommands
                      /\ u.m.commandsToPrint = <<>>

\* The generate-command key has ended the program with two packages selected.
GenerateCommandKeyWitness ==
    /\ exited
    /\ m.viewState = ViewOptions
    /\ m.quitWithCommands
    /\ ~m.autoRun
    /\ Len(m.commandsToPrint) = 1
    /\ Cardinality(ValidSelected(m)) = 2

\* The elements of a sequence.
Elems(s) == {s[k] : k \in 1..Len(s)}

\* C22: in Search, the help overlay closed, the confirm key given to Update
\* moves to Options exactly when a package is selected or, none being
\* selected, the cursor is on a result, which is then selected; a 'viewed'
\* Add is issued for each selected package; otherwise the session is left
\* as it was and no Add is issued.
ConfirmKey ==
    (~exited /\ m.viewState = ViewSearch /\ ~m.showHelp)
       => \A o \in Orders(m.selected) :
             LET u == Update(m, KeyMsg("enter", ""), o, timers, cmds)
                 chosen == IF ValidSelected(m) # {} THEN ValidSelected(m)
                           ELSE IF m.cursor < Len(m.packages) THEN {m.cursor} ELSE {}
             IN  /\ ~u.quit
                 /\ u.m.viewState = IF chosen # {} THEN ViewOptions ELSE ViewSearch
                 /\ ValidSelected(u.m) = chosen
                 /\ Len(u.calls) = Cardinality(chosen)
                 /\ Elems(u.calls) = {<<m.packages[idx + 1].name, m.packages[idx + 1].importPath, ActionViewed>> : idx \in chosen}
                 /\ chosen = {} => u.m = m
                 /\ (Len(m.packages) = 0 /\ m.selected = {}) => (u.m.viewState = ViewSearch /\ u.calls = <<>>)

\* The confirm key has opened Options on the package under the cursor and
\* its 'viewed' entry is in the history.
ConfirmKeyWitness ==
    /\ ~exited
    /\ m.viewState = ViewOptions
    /\ m.selected = {1}
    /\ m.cursor = 1
    /\ Len(hfile) = 1
    /\ hfile[1].action = ActionViewed
    /\ hfile[1].package = m.packages[2].name

\* C23: in Search, the help overlay closed, the escape key given to Update
\* with a query typed leaves the view Search, the query and the result list
\* empty and the program running; with no query typed it ends the program.
EscapeKey ==
    (~exited /\ m.viewState = ViewSearch /\ ~m.showHelp)
       => \A o \in Orders(m.selected) :
             LET u == Update(m, KeyMsg("esc", ""), o, timers, cmds)
             IN  IF m.input # <<>>
                 THEN /\ ~u.quit
                      /\ u.m.viewState = ViewSearch
                      /\ u.m.input = <<>>
                      /\ u.m.lastQuery = <<>>
                      /\ u.m.packages = <<>>
                 ELSE u.quit

\* Escape has cleared a query and a result list in which a package was
\* marked; the timer of the later query is left as it was.
EscapeKeyWitness ==
    /\ ~exited
    /\ m.viewState = ViewSearch
    /\ m.input = <<>>
    /\ m.packages = <<>>
    /\ m.selected = {0}
    /\ m.searchDebounce # 0
    /\ timers[m.searchDebounce] = "armed"

\* C25: once the session has quit no debounce timer is left pending.
NoTimerPendingAfterQuit ==
    exited => \A t \in 1..Len(timers) : timers[t] # "armed"

\* The timers not yet fired and not stopped.
Armed(tms) == {t \in 1..Len(tms) : tms[t] = "armed"}

\* C29: a step that changes the input text stops every pending debounce
\* timer; if the new text is empty it empties the result list and makes no
\* timer and no command; otherwise it leaves exactly one timer pending, made
\* in this step together with one command that holds the new text as its
\* query.
DebounceOnInputChange ==
    [][m'.input # m.input
         => /\ \A t \in Armed(timers) : timers'[t] # "armed"
            /\ IF m'.input = <<>>
               THEN m'.packages = <<>> /\ Len(timers') = Len(timers) /\ Len(cmds') = Len(cmds)
               ELSE /\ Armed(timers') = {Len(timers) + 1}
                    /\ Len(cmds') = Len(cmds) + 1
                    /\ cmds'[Len(cmds')].query = m'.input]_vars

\* C31: the step of Update that takes a failed search result sets the error
\* message and clears the searching flag; it leaves the view as it was, Search
\* staying Search, and leaves the result list, the cursor, the selection and
\* the input unchanged.
FailedSearchKeepsResults ==
    [][\A x \in inbox \ inbox' :
          x.msg.err
             => /\ m'.message = "Search failed" /\ m'.messageType = "error"
                /\ ~m'.searching
                /\ m'.viewState = m.viewState
                /\ m'.packages = m.packages /\ m'.fromCache = m.fromCache
                /\ m'.cursor = m.cursor /\ m'.selected = m.selected
                /\ m'.input = m.input]_vars

\* A failed search result has been taken in Search while results of an
\* earlier search were listed and one of them was selected.
FailedSearchKeepsResultsWitness ==
    /\ m.viewState = ViewSearch
    /\ m.message = "Search failed" /\ m.messageType = "error" /\ ~m.searching
    /\ m.packages # <<>> /\ m.selected # {}
    /\ \E i \in 1..Len(cmds) : cmds[i].pc = "done" /\ \A x \in inbox : x.cmd # i

\* C34: whenever the input text is empty the result list is empty.
EmptyInputEmptyResults == m.input = <<>> => m.packages = <<>>

\* Every command made has waited, searched and had its message applied, and
\* the session shows no search in progress.
Settled ==
    /\ ~m.searching
    /\ inbox = {}
    /\ \A i \in 1..Len(cmds) : cmds[i].pc = "done"

\* C35: if from some point on no key arrives, then from some point on a
\* running session with a non-empty input text is settled: no command waits
\* for a timer or searches, every message has been applied and the searching
\* flag is off.
SearchSettles == <>[][~KeyStep]_vars => <>[]((~exited /\ m.input # <<>>) => Settled)

\* The Search-view commands given as Shift+letter.
ShiftCommands == {KeyMsg("runes", r) : r \in {"A", "N", "C"}}

\* The Options-view keys that may return to Search.
ReturnKeys == {KeyMsg("runes", r) : r \in {"c", "g"}}

\* Update has left the input text, the timers and the commands as they are.
KeepsQuery(u) == u.m.input = m.input /\ u.m.lastQuery = m.lastQuery /\ u.timers = timers /\ u.cmds = cmds

\* C36: in a running session, Shift+A, Shift+N and Shift+C in the Search view,
\* and 'c' or 'g' in the Options view when the key returns to Search, leave
\* the input text unchanged and make no timer and no command.
CommandKeysKeepQuery ==
    ~exited
       => \A o \in Orders(m.selected) :
             /\ (m.viewState = ViewSearch /\ ~m.showHelp)
                  => \A msg \in ShiftCommands : KeepsQuery(Update(m, msg, o, timers, cmds))
             /\ m.viewState = ViewOptions
                  => \A msg \in ReturnKeys :
                        LET u == Update(m, msg, o, timers, cmds)
                        IN  u.m.viewState = ViewSearch => KeepsQuery(u)

\* The view is Search or Options and nothing is installing.
SearchOrOptions(mm) == mm.viewState \in {ViewSearch, ViewOptions} /\ ~mm.installing

\* C37: in every state of the session, reached by keys and search results,
\* the view is Search or Options and the installing flag is off, and Update
\* on a resize, on the message of an installation in progress or finished, or
\* on the message of a failed one leaves it so.
OnlySearchAndOptions ==
    /\ SearchOrOptions(m)
    /\ \A size \in {<<80, 24>>, <<0, 0>>} :
          SearchOrOptions(InputCase(onWindowSize(m, size), NoKey, timers, cmds).m)
    /\ \A msg \in InstallMsgs :
          SearchOrOptions(InputCase(onInstallProgress(m, installedCache, msg).m, NoKey, timers, cmds).m)
    /\ SearchOrOptions(InputCase(onInstallError(m), NoKey, timers, cmds).m)

\* The download key has been pressed in Options on a selection with a package
\* to install: the program has quit with the command to run, still in Options.
OnlySearchAndOptionsWitness ==
    /\ exited /\ m.autoRun /\ m.commandsToPrint # <<>>
    /\ m.viewState = ViewOptions /\ m.selected # {}

\* The cursor is on an item of the result list, if there is any.
CursorInRange(mm) == mm.packages # <<>> => (0 <= mm.cursor /\ mm.cursor < Len(mm.packages))

InstallingView ==
    (~exited /\ m.viewState = ViewInstalling)
       => /\ \A msg \in Keys, o \in Orders(m.selected) :
                LET u == Update(m, msg, o, timers, cmds)
                IN  u.m = m /\ ~u.quit /\ u.calls = <<>> /\ u.timers = timers /\ u.cmds = cmds
          /\ \A msg \in {x \in InstallMsgs : x.done} :
                LET u == InputCase(onInstallProgress(m, installedCache, msg).m, NoKey, timers, cmds).m
                IN  /\ u.viewState = ViewSearch
                    /\ u.selected = {}
                    /\ Len(u.packages) = Len(m.packages)
                    /\ \A k \in 1..Len(m.packages) :
                          /\ u.packages[k].importPath = m.packages[k].importPath
                          /\ u.packages[k].isInstalled = IsInstalled(installedCache, m.packages[k].importPath).installed
                    /\ u.message = "Installation completed successfully!"
                    /\ u.messageType = "success"
          /\ LET u == InputCase(onInstallError(m), NoKey, timers, cmds).m
             IN  /\ u.viewState = ViewSearch
                 /\ u.message = "Installation failed"
                 /\ u.messageType = "error"

\* An installation has finished with packages selected: the view is Search,
\* nothing is selected and a package is now marked installed.
InstallingViewWitness ==
    /\ m.viewState = ViewSearch
    /\ m.message = "Installation completed successfully!"
    /\ m.installProgress = 100
    /\ m.selected = {}
    /\ Len(m.packages) = 2
    /\ m.packages[1].isInstalled

(***************************************************************************)
(* Properties of InstallPackages (SpecInstall)                             *)
(***************************************************************************)
\* The reports InstallPackages made itself, in order.
OwnReports == SelectSeq(inst.reports, LAMBDA r : r.by = "call")

\* The packages the loop has taken up so far.
TakenUp == IF inst.ret = "error" THEN inst.i + 1 ELSE inst.i

\* The import paths of the packages among the first n that are not marked installed.
RECURSIVE ToInstall(_, _)
ToInstall(packages, n) ==
    IF n = 0 THEN <<>>
    ELSE ToInstall(packages, n - 1) \o (IF packages[n].isInstalled THEN <<>> ELSE <<packages[n].importPath>>)

\* C26: InstallPackages takes the packages in list order, one at a time: the
\* installer has been invoked for exactly the unmarked packages taken up so
\* far, in order; a marked package got a report at (i+1)/total*100 percent;
\* after a failure the call has returned the error with the failed package
\* the last one invoked and no report of overall success; a call that
\* returned no error went through every package and made the success
\* report at 100 percent its last report.
InstallInOrder ==
    /\ inst.invoked = ToInstall(inst.packages, TakenUp)
    /\ \A j \in 0..(TakenUp - 1) :
          inst.packages[j + 1].isInstalled
             => /\ \E k \in 1..Len(OwnReports) :
                      OwnReports[k] = Report("call", "already installed", inst.packages[j + 1].importPath,
                                             PercentOf(j, Len(inst.packages)))
                /\ \A k \in 1..Len(inst.reports) : inst.reports[k].path # inst.packages[j + 1].importPath
                                                      \/ inst.reports[k].kind = "already installed"
    /\ inst.failed # <<>> => inst.ret = "error"
    /\ inst.ret = "error"
          => /\ inst.pc = "done"
             /\ inst.failed = <<inst.packages[inst.i + 1].importPath>>
             /\ inst.invoked[Len(inst.invoked)] = inst.packages[inst.i + 1].importPath
             /\ \A k \in 1..Len(inst.reports) : inst.reports[k].kind # "all installed"
    /\ inst.ret = "nil"
          => /\ TakenUp = Len(inst.packages)
             /\ inst.failed = <<>>
             /\ OwnReports # <<>>
             /\ OwnReports[Len(OwnReports)].kind = "all installed"
             /\ OwnReports[Len(OwnReports)].percent.num = 100 * OwnReports[Len(OwnReports)].percent.den
             /\ \A k \in 1..(Len(OwnReports) - 1) : OwnReports[k].kind # "all installed"

\* The second of three packages failed to install after the first, marked
\* installed, was passed over: the third was never taken up.
InstallInOrderWitness ==
    /\ inst.ret = "error"
    /\ Len(inst.packages) = 3
    /\ inst.i = 1
    /\ inst.packages[1].isInstalled
    /\ ~inst.packages[3].isInstalled
    /\ Len(inst.invoked) = 1

(***************************************************************************)
(* Properties of the package manager's memo (SpecPm)                       *)
(***************************************************************************)
\* C27: IsInstalled on a path the map holds answers what the map holds, runs
\* no probe and leaves the map as it is; on a path the map does not hold it
\* probes and stores its answer; RefreshCache leaves the map empty;
\* InstallPackage takes the entry of its path out of the map and no other;
\* nothing else changes the map.
MemoizedStatus ==
    [][LET a == inst'.asked
       IN  /\ (a.op = "IsInstalled" /\ a.path \in DOMAIN installedCache)
                => (a.installed = installedCache[a.path] /\ ~a.probed /\ installedCache' = installedCache)
           /\ (a.op = "IsInstalled" /\ a.path \notin DOMAIN installedCache)
                => /\ a.probed
                   /\ DOMAIN installedCache' = DOMAIN installedCache \cup {a.path}
                   /\ installedCache'[a.path] = a.installed
                   /\ \A p \in DOMAIN installedCache : installedCache'[p] = installedCache[p]
           /\ a.op = "RefreshCache" => DOMAIN installedCache' = {}
           /\ a.op = "InstallPackage"
                => /\ DOMAIN installedCache' = DOMAIN installedCache \ {a.path}
                   /\ \A p \in DOMAIN installedCache' : installedCache'[p] = installedCache[p]
           /\ a.op = "none" => installedCache' = installedCache]_vars

\* IsInstalled answered from the map, without a probe, what the module
\* cache no longer says, while the map holds an answer for another path too.
MemoizedStatusWitness ==
    /\ inst.asked.op = "IsInstalled"
    /\ ~inst.asked.probed
    /\ inst.asked.installed
    /\ inst.asked.path \notin goMod
    /\ DOMAIN installedCache = PmPaths

====
